---------------------------- MODULE Spec2Model ----------------------------
(***************************************************************************)
(* Toponym reconciliation and geocoding engine (server.py, processor/).    *)
(*                                                                         *)
(* Strings are sequences of one-character strings.  Three characters stand *)
(* for code points outside ASCII or for control characters:                *)
(*     "@"  U+00E0  LATIN SMALL LETTER A WITH GRAVE (precomposed)          *)
(*     "^"  U+0300  COMBINING GRAVE ACCENT                                 *)
(*     "~"  U+0009  CHARACTER TABULATION                                   *)
(* Page labels are integers (get_footer_page_number returns an int and     *)
(* _safe_int turns every numeric label into one).                          *)
(***************************************************************************)
EXTENDS Integers, Sequences, FiniteSets, TLC

VARIABLES
    base_csv,        \* annale_toponimi.csv: accepted occurrences, file order
    excl_csv,        \* annale_toponimi_esclusi.csv: auto-rejected rows
    state_file,      \* annale_user_state.json: the persisted Override State
    final_included,  \* final_included returned by the latest _compute_model
    final_excluded,  \* final_excluded returned by the latest _compute_model
    filtered_csv,    \* annale_toponimi_filtered.csv: the active term list
    progress,        \* geocode_progress.json
    start_pc,        \* where each /api/geocode_start request stands
    worker,          \* the _geocode_worker thread each start request launched
    saver,           \* a _save_user_state call between open() and close()
    reader,          \* what the latest concurrent _load_user_state returned
    exclusions_file, \* annale_user_exclusions.json (processor/exclusions.py)
    csv_files,       \* which of the two term list artifacts exist
    geocache,        \* geocache_toponyms.json
    outputs,         \* the grouped GeoJSON and the rejects CSV
    lookup,          \* one call of the resolver or of the cache, and its outcome
    net              \* the requests the worker threads send to the geocoding service

job_vars == <<base_csv, excl_csv>>
model_vars == <<final_included, final_excluded, filtered_csv>>
geo_vars == <<progress, start_pc, worker>>
save_vars == <<saver, reader>>
legacy_vars == <<exclusions_file>>
run_vars == <<csv_files, geocache, outputs>>
lookup_vars == <<lookup, net>>

vars == <<base_csv, excl_csv, state_file, final_included, final_excluded,
          filtered_csv, progress, start_pc, worker, saver, reader,
          exclusions_file, csv_files, geocache, outputs, lookup, net>>

---------------------------------------------------------------------------
(* Bounds of the model *)

\* page labels are 1..MaxPage
MaxPage == 2
\* occurrences in annale_toponimi.csv
MaxRaw == 2
\* rows in annale_toponimi_esclusi.csv
MaxAuto == 1
\* curator actions carried by one /api/exclusions request
MaxActs == 1
\* records kept in the persisted Override State (all three lists together)
MaxRecs == 2
\* names in the excluded_toponyms argument of save_user_exclusions
MaxNames == 2
\* /api/geocode_start requests of one job
MaxStarts == 2
\* results in the list the geocoding service returns for one search
MaxHits == 2
\* characters of a string given to the normalizers
MaxChars == 3
\* characters of a range string given to parse_include_ranges
MaxRangeLen == 5
\* pages of the document whose ranges are parsed
MaxTotal == 2
\* jobs with a batch run
MaxJobs == 2
\* searches one batch run sends
MaxSearches == 2
\* seconds on the clock
MaxTime == 4

Pages == 1..MaxPage

Ba == <<"B", "a">>
Bagrave == <<"B", "@">>
Ci == <<"C", "i">>
\* the forms printed in the documents
DocStrings == {Bagrave, Ci}
\* the forms a curator sends
TermStrings == DocStrings \cup {Ba}

Range(s) == {s[i] : i \in DOMAIN s}

SeqsUpTo(S, n) == UNION {[1..m -> S] : m \in 0..n}

\* the orders in which a set of pages can be enumerated
Enumerations == {o \in [1..MaxPage -> Pages] : \A i, j \in 1..MaxPage : o[i] = o[j] => i = j}

---------------------------------------------------------------------------
(* Normalizer: server._norm *)

\* unicodedata.normalize("NFKD", .) on one character
NFKD(c) == IF c = "@" THEN <<"a", "^">> ELSE <<c>>

\* unicodedata.combining(ch) # 0
combining(c) == c = "^"

\* a character matched by the regular expression \s
IsSpace(c) == c \in {" ", "~"}

\* str.lower() on one character
lower(c) ==
    CASE c = "A" -> "a"
      [] c = "B" -> "b"
      [] c = "C" -> "c"
      [] c = "I" -> "i"
      [] c = "P" -> "p"
      [] OTHER -> c

RECURSIVE Decompose(_)
Decompose(s) == IF s = <<>> THEN <<>> ELSE NFKD(Head(s)) \o Decompose(Tail(s))

RECURSIVE SkipSpaces(_)
SkipSpaces(s) ==
    IF s = <<>> THEN <<>>
    ELSE IF IsSpace(Head(s)) THEN SkipSpaces(Tail(s)) ELSE s

\* re.sub(r"\s+", " ", s)
RECURSIVE CollapseSpaces(_)
CollapseSpaces(s) ==
    IF s = <<>> THEN <<>>
    ELSE IF IsSpace(Head(s)) THEN <<" ">> \o CollapseSpaces(SkipSpaces(Tail(s)))
    ELSE <<Head(s)>> \o CollapseSpaces(Tail(s))

RECURSIVE DropTrailingSpaces(_)
DropTrailingSpaces(s) ==
    IF s = <<>> THEN <<>>
    ELSE IF IsSpace(s[Len(s)]) THEN DropTrailingSpaces(SubSeq(s, 1, Len(s) - 1)) ELSE s

\* str.strip()
strip(s) == DropTrailingSpaces(SkipSpaces(s))

lower_str(s) == [i \in DOMAIN s |-> lower(s[i])]

\* NFKD, drop the combining marks, collapse and trim the whitespace, lower
normalize(s) ==
    lower_str(strip(CollapseSpaces(SelectSeq(Decompose(s), LAMBDA ch : ~combining(ch)))))

\* the term keys of the model
Keys == {normalize(t) : t \in TermStrings}

\* normalize, tabulated once for the strings of the model
NormTable == [s \in TermStrings \cup Keys \cup {<<>>} |-> normalize(s)]

_norm(s) == IF s \in DOMAIN NormTable THEN NormTable[s] ELSE normalize(s)

\* processor.utils.normalize_name: the same statements, the substitution of
\* the whitespace as a statement of its own
normalize_name(s) ==
    lower_str(strip(CollapseSpaces(SelectSeq(Decompose(s), LAMBDA ch : ~combining(ch)))))

\* processor.utils._norm
utils_norm(s) == normalize_name(s)

\* _best_display that keeps the later of two forms of the same length
_best_display_later(a, b) ==
    IF a = <<>> THEN b
    ELSE IF b = <<>> THEN a
    ELSE IF Len(a) < Len(b) THEN a ELSE b

_best_display(a, b) ==
    IF a = <<>> THEN b
    ELSE IF b = <<>> THEN a
    ELSE IF Len(a) <= Len(b) THEN a ELSE b

---------------------------------------------------------------------------
(* The persisted Override State: _load_user_state, _save_user_state *)

EmptyState == [exclude_global |-> <<>>, exclude_pages |-> <<>>, include_pages |-> <<>>]

StateFields == {"exclude_global", "exclude_pages", "include_pages"}

\* A file holding a JSON object with the fields keys; shape is "dict".
\* Other shapes: "missing" (no file), "garbage" (json.load raises: empty,
\* truncated or otherwise unparseable text), "list" (a JSON array),
\* "null" (JSON null).
DictFile(keys, st) ==
    [shape |-> "dict", keys |-> keys,
     exclude_global |-> st.exclude_global,
     exclude_pages |-> st.exclude_pages,
     include_pages |-> st.include_pages]

OtherFile(shape) == [DictFile({}, EmptyState) EXCEPT !.shape = shape]

\* data.get(name, []) or []
DataGet(data, name) == IF name \in data.keys THEN data[name] ELSE <<>>

\* The outcome of _load_user_state: raised = "" and the state returned, or the
\* name of the exception that leaves the function.
_load_user_state(file) ==
    IF file.shape = "missing" THEN [raised |-> "", st |-> EmptyState]
    ELSE LET data == IF file.shape = "garbage" THEN DictFile({}, EmptyState) ELSE file
         IN  IF data.shape # "dict"
             THEN [raised |-> "AttributeError", st |-> EmptyState]
             ELSE [raised |-> "",
                   st |-> [exclude_global |-> DataGet(data, "exclude_global"),
                           exclude_pages |-> DataGet(data, "exclude_pages"),
                           include_pages |-> DataGet(data, "include_pages")]]

\* the first record of each key, in input order (the seen_* sets of the save)
RECURSIVE DedupBy(_, _, _)
DedupBy(recs, seen, out) ==
    IF recs = <<>> THEN out
    ELSE LET rec == Head(recs)
             key == <<rec.norm, rec.page>>
         IN  IF rec.norm # <<>> /\ key \notin seen
             THEN DedupBy(Tail(recs), seen \cup {key}, Append(out, rec))
             ELSE DedupBy(Tail(recs), seen, out)

RECURSIVE DedupNames(_, _, _)
DedupNames(names, seen, out) ==
    IF names = <<>> THEN out
    ELSE LET nn == _norm(Head(names))
         IN  IF nn # <<>> /\ nn \notin seen
             THEN DedupNames(Tail(names), seen \cup {nn}, Append(out, nn))
             ELSE DedupNames(Tail(names), seen, out)

\* the data written by _save_user_state(st)
SavedData(st) ==
    [exclude_global |-> DedupNames(st.exclude_global, {}, <<>>),
     exclude_pages |->
        DedupBy([i \in DOMAIN st.exclude_pages |->
                    [norm |-> _norm(st.exclude_pages[i].norm),
                     page |-> st.exclude_pages[i].page]], {}, <<>>),
     include_pages |->
        DedupBy([i \in DOMAIN st.include_pages |->
                    [norm |-> _norm(st.include_pages[i].norm),
                     page |-> st.include_pages[i].page,
                     raw |-> st.include_pages[i].raw]], {}, <<>>)]

\* the file once _save_user_state(st) has returned
_save_user_state(st) == DictFile(StateFields, SavedData(st))

---------------------------------------------------------------------------
(* The exclusions store of processor/exclusions.py:                        *)
(* annale_user_exclusions.json                                             *)

NoExclusions ==
    [excluded_toponyms |-> <<>>, excluded_attestations |-> <<>>,
     forced_include_attestations |-> <<>>]

\* no annale_user_exclusions.json in the job directory
MissingExclusions == [exists |-> FALSE, data |-> NoExclusions]

\* list(OrderedDict.fromkeys(seq).keys())
RECURSIVE ordered_unique(_)
ordered_unique(seq) ==
    IF seq = <<>> THEN <<>>
    ELSE <<Head(seq)>> \o ordered_unique(SelectSeq(Tail(seq), LAMBDA x : x # Head(seq)))

\* _clean_pairs of _load_raw_exclusions: rows with a name, name normalized
_load_clean_pairs(arr) ==
    LET cleaned == SelectSeq(arr, LAMBDA row : strip(row.name_norm) # <<>>)
    IN  [i \in DOMAIN cleaned |->
            [name_norm |-> _norm(cleaned[i].name_norm), page |-> cleaned[i].page]]

_load_raw_exclusions(file) ==
    IF ~file.exists THEN NoExclusions
    ELSE [excluded_toponyms |-> file.data.excluded_toponyms,
          excluded_attestations |-> _load_clean_pairs(file.data.excluded_attestations),
          forced_include_attestations |->
              _load_clean_pairs(file.data.forced_include_attestations)]

\* _clean_pairs of save_user_exclusions: name normalized, first row of each
\* (name, page) kept
RECURSIVE _clean_pairs(_, _, _)
_clean_pairs(arr, seen, clean_list) ==
    IF arr = <<>> THEN clean_list
    ELSE LET row == Head(arr)
             key == <<_norm(row.name_norm), row.page>>
         IN  IF strip(row.name_norm) # <<>> /\ key \notin seen
             THEN _clean_pairs(Tail(arr), seen \cup {key},
                               Append(clean_list, [name_norm |-> key[1], page |-> key[2]]))
             ELSE _clean_pairs(Tail(arr), seen, clean_list)

\* an optional argument: None, or the list rows
None == [given |-> FALSE, rows |-> <<>>]
Given(rows) == [given |-> TRUE, rows |-> rows]

\* the file once save_user_exclusions has returned
save_user_exclusions(file, excluded_toponyms, excluded_attestations, forced_include_attestations) ==
    LET prev == _load_raw_exclusions(file)
        excl == IF excluded_attestations.given THEN excluded_attestations.rows
                ELSE prev.excluded_attestations
        incl == IF forced_include_attestations.given THEN forced_include_attestations.rows
                ELSE prev.forced_include_attestations
        uniq_topo == ordered_unique(SelectSeq(excluded_toponyms, LAMBDA x : strip(x) # <<>>))
    IN  [exists |-> TRUE,
         data |-> [excluded_toponyms |-> uniq_topo,
                   excluded_attestations |-> _clean_pairs(excl, {}, <<>>),
                   forced_include_attestations |-> _clean_pairs(incl, {}, <<>>)]]

---------------------------------------------------------------------------
(* Reconciliation Resolver: _read_base_csv, _read_fallback_excluded,       *)
(* _compute_model                                                          *)

\* the display kept for a key: the first form seen, refined by _best_display
RECURSIVE FoldDisplay(_, _)
FoldDisplay(acc, terms) ==
    IF terms = <<>> THEN acc
    ELSE FoldDisplay(_best_display(acc, Head(terms)), Tail(terms))

\* {norm: {"display": ..., "pages": set}} built from (page, term) occurrences
CollectTerms(pages, terms) ==
    [nm \in {_norm(terms[i]) : i \in DOMAIN terms} |->
        LET mine == SelectSeq(terms, LAMBDA t : _norm(t) = nm)
        IN  [display |-> FoldDisplay(Head(mine), Tail(mine)),
             pages |-> {pages[i] : i \in {j \in DOMAIN terms : _norm(terms[j]) = nm}}]]

\* base_included of _read_base_csv.  A row "page, t1;t2" of the file is the
\* occurrences (page, t1), (page, t2) of base_csv.
_read_base_csv(csv) ==
    CollectTerms([i \in DOMAIN csv |-> csv[i].pagina], [i \in DOMAIN csv |-> csv[i].luogo])

\* auto_excl of _read_fallback_excluded: every row with a page and a term,
\* whatever its stadio column holds
_read_fallback_excluded(csv) ==
    CollectTerms([i \in DOMAIN csv |-> csv[i].pagina], [i \in DOMAIN csv |-> csv[i].termine])

ex_pages_set(state) ==
    {<<_norm(rec.norm), rec.page>> :
        rec \in {r \in Range(state.exclude_pages) : _norm(r.norm) # <<>>}}

in_pages_set(state) ==
    {<<_norm(rec.norm), rec.page>> :
        rec \in {r \in Range(state.include_pages) : _norm(r.norm) # <<>>}}

\* in_pages_raw.items(): a dict keeps the place of a key's first insertion
\* and the value of its last
RECURSIVE in_pages_raw(_, _)
in_pages_raw(recs, items) ==
    IF recs = <<>> THEN items
    ELSE LET rec == Head(recs)
             key == <<_norm(rec.norm), rec.page>>
             at == {i \in DOMAIN items : items[i].key = key}
         IN  IF _norm(rec.norm) = <<>> \/ rec.raw = <<>>
             THEN in_pages_raw(Tail(recs), items)
             ELSE IF at = {}
             THEN in_pages_raw(Tail(recs), Append(items, [key |-> key, raw |-> rec.raw]))
             ELSE in_pages_raw(Tail(recs),
                               [i \in DOMAIN items |->
                                   IF i \in at THEN [key |-> key, raw |-> rec.raw]
                                   ELSE items[i]])

\* min(disp_candidates, key=len): the first candidate of minimal length
MinByLen(cands) ==
    cands[CHOOSE i \in DOMAIN cands :
            /\ \A j \in DOMAIN cands : Len(cands[i]) <= Len(cands[j])
            /\ \A j \in 1..(i - 1) : Len(cands[j]) > Len(cands[i])]

\* the display chosen for norm; raws is in_pages_raw.items()
display_of(norm, base_included, auto_excl, raws) ==
    LET mine == SelectSeq(raws, LAMBDA it : it.key[1] = norm)
        disp_candidates ==
            (IF norm \in DOMAIN base_included THEN <<base_included[norm].display>> ELSE <<>>)
            \o (IF norm \in DOMAIN auto_excl THEN <<auto_excl[norm].display>> ELSE <<>>)
            \o [i \in DOMAIN mine |-> mine[i].raw]
        nonempty == SelectSeq(disp_candidates, LAMBDA d : d # <<>>)
    IN  IF nonempty # <<>> THEN MinByLen(nonempty) ELSE norm

\* Faulty variants of the two page computations and of the page sort, kept
\* to show that the properties below tell them from the code.

\* the branch "if norm in exclude_global" left out
pages_inc_no_global(norm, base_pages, exclude_global, ex_pages, in_pages) ==
    LET forced == {kp[2] : kp \in {x \in in_pages : x[1] = norm}}
        removed == {kp[2] : kp \in {x \in ex_pages : x[1] = norm /\ x \notin in_pages}}
    IN  (base_pages \cup forced) \ removed

\* the loop over ex_pages_set left out
pages_inc_keep_excluded(norm, base_pages, exclude_global, ex_pages, in_pages) ==
    LET forced == {kp[2] : kp \in {x \in in_pages : x[1] = norm}}
    IN  IF norm \in exclude_global THEN forced ELSE base_pages \cup forced

\* a forced page lifts the global exclusion of the whole term
pages_inc_forced_lifts_global(norm, base_pages, exclude_global, ex_pages, in_pages) ==
    LET forced == {kp[2] : kp \in {x \in in_pages : x[1] = norm}}
        removed == {kp[2] : kp \in {x \in ex_pages : x[1] = norm /\ x \notin in_pages}}
    IN  IF norm \in exclude_global /\ forced = {}
        THEN {}
        ELSE (base_pages \cup forced) \ removed

\* a page is forced only where the term is in base_included
pages_inc_forced_needs_raw(norm, base_pages, exclude_global, ex_pages, in_pages) ==
    LET forced == {kp[2] : kp \in {x \in in_pages : x[1] = norm}} \cap base_pages
        removed == {kp[2] : kp \in {x \in ex_pages : x[1] = norm /\ x \notin in_pages}}
    IN  IF norm \in exclude_global
        THEN forced
        ELSE (base_pages \cup forced) \ removed

\* the loop over auto_excl[norm]["pages"] left out
pages_exc_base_only(norm, base_pages, auto_pages, in_pages, inc) ==
    {p \in base_pages : p \notin inc}

\* the test "if p not in pages_inc" left out for the pages of auto_excl
pages_exc_auto_unchecked(norm, base_pages, auto_pages, in_pages, inc) ==
    {p \in base_pages : p \notin inc}
        \cup {p \in auto_pages : <<norm, p>> \notin in_pages}

\* the pages in the order the set yields them, not sorted
sorted_pages_unsorted(s) == s

\* "1. Pagine incluse": base_pages are the pages of base_included[norm]
pages_inc(norm, base_pages, exclude_global, ex_pages, in_pages) ==
    LET forced == {kp[2] : kp \in {x \in in_pages : x[1] = norm}}
        removed == {kp[2] : kp \in {x \in ex_pages : x[1] = norm /\ x \notin in_pages}}
    IN  IF norm \in exclude_global
        THEN forced
        ELSE (base_pages \cup forced) \ removed

\* "2. Pagine escluse": auto_pages are the pages of auto_excl[norm], inc is
\* pages_inc
pages_exc(norm, base_pages, auto_pages, in_pages, inc) ==
    {p \in base_pages : p \notin inc}
        \cup {p \in auto_pages : <<norm, p>> \notin in_pages /\ p \notin inc}

\* a set of pages as the list Python gets by iterating it: some order
\* enum of the pages, which the code does not control
Iterate(S, enum) == SelectSeq(enum, LAMBDA p : p \in S)

RECURSIVE InsertPage(_, _)
InsertPage(p, s) ==
    IF s = <<>> THEN <<p>>
    ELSE IF p < Head(s) THEN <<p>> \o s
    ELSE <<Head(s)>> \o InsertPage(p, Tail(s))

\* sorted(pages, key=lambda x: (not isinstance(x, int), x))
RECURSIVE sorted_pages(_)
sorted_pages(s) ==
    IF s = <<>> THEN <<>> ELSE InsertPage(s[Len(s)], sorted_pages(SubSeq(s, 1, Len(s) - 1)))

\* one turn of the loop "for norm in all_norms" of _compute_model
resolve_norm(norm, base_included, auto_excl, state, enum) ==
    LET exclude_global == Range(state.exclude_global)
        in_pages == in_pages_set(state)
        base_pages == IF norm \in DOMAIN base_included THEN base_included[norm].pages ELSE {}
        auto_pages == IF norm \in DOMAIN auto_excl THEN auto_excl[norm].pages ELSE {}
        inc == pages_inc(norm, base_pages, exclude_global, ex_pages_set(state), in_pages)
        exc == pages_exc(norm, base_pages, auto_pages, in_pages, inc)
    IN  [norm |-> norm,
         display |-> display_of(norm, base_included, auto_excl,
                                in_pages_raw(state.include_pages, <<>>)),
         is_glob |-> norm \in exclude_global,
         pages_inc |-> sorted_pages(Iterate(inc, enum)),
         pages_exc |-> sorted_pages(Iterate(exc, enum))]

all_norms(base_included, auto_excl, state) ==
    DOMAIN base_included \cup DOMAIN auto_excl
        \cup {kp[1] : kp \in in_pages_set(state)}
        \cup Range(state.exclude_global)
        \cup {kp[1] : kp \in ex_pages_set(state)}

\* _compute_model on the three artifacts; enum is the iteration order of
\* the page sets during this evaluation
_compute_model(base, excl, file, enum) ==
    LET base_included == _read_base_csv(base)
        auto_excl == _read_fallback_excluded(excl)
        state == _load_user_state(file).st
        turns == {resolve_norm(n, base_included, auto_excl, state, enum) :
                    n \in all_norms(base_included, auto_excl, state)}
        turn(n) == CHOOSE t \in turns : t.norm = n
    IN  [final_included |->
            [n \in {t.norm : t \in {u \in turns : u.pages_inc # <<>>}} |->
                [display |-> turn(n).display, pages |-> turn(n).pages_inc]],
         final_excluded |->
            [n \in {t.norm : t \in {u \in turns : u.is_glob \/ u.pages_exc # <<>>}} |->
                [display |-> turn(n).display,
                 is_global |-> turn(n).is_glob,
                 pages |-> turn(n).pages_exc]]]

---------------------------------------------------------------------------
(* Active-Set Materializer: _write_filtered_csv *)

\* ord(ch) of the characters of the model
code(c) ==
    CASE c = "~" -> 9
      [] c = " " -> 32
      [] c = ";" -> 59
      [] c = "A" -> 65
      [] c = "B" -> 66
      [] c = "C" -> 67
      [] c = "I" -> 73
      [] c = "a" -> 97
      [] c = "b" -> 98
      [] c = "c" -> 99
      [] c = "i" -> 105
      [] c = "@" -> 224
      [] c = "^" -> 768

\* a < b for Python strings
RECURSIVE str_less(_, _)
str_less(a, b) ==
    IF b = <<>> THEN FALSE
    ELSE IF a = <<>> THEN TRUE
    ELSE IF Head(a) # Head(b) THEN code(Head(a)) < code(Head(b))
    ELSE str_less(Tail(a), Tail(b))

\* sorted(set(terms_here), key=lambda x: x.lower())
RECURSIVE sorted_terms(_)
sorted_terms(S) ==
    IF S = {} THEN <<>>
    ELSE LET first == CHOOSE x \in S :
                        \A y \in S \ {x} : ~str_less(lower_str(y), lower_str(x))
         IN  <<first>> \o sorted_terms(S \ {first})

\* ";".join(terms)
RECURSIVE join(_)
join(terms) ==
    IF terms = <<>> THEN <<>>
    ELSE IF Len(terms) = 1 THEN terms[1]
    ELSE terms[1] \o <<";">> \o join(Tail(terms))

\* the rows of annale_toponimi_filtered.csv (columns pagina and luogo), one
\* for each page of page_map, pages ascending; luogo is the text of the cell
_write_filtered_csv(included) ==
    LET page_map == [p \in UNION {Range(included[n].pages) : n \in DOMAIN included} |->
                        {included[n].display :
                            n \in {m \in DOMAIN included : p \in Range(included[m].pages)}}]
        all_pages_sorted == sorted_pages(Iterate(DOMAIN page_map, [i \in 1..MaxPage |-> i]))
    IN  [i \in DOMAIN all_pages_sorted |->
            [pagina |-> all_pages_sorted[i],
             luogo |-> join(sorted_terms(page_map[all_pages_sorted[i]]))]]

---------------------------------------------------------------------------
(* Curator mutations: the four loops of api_exclusions *)

same_occurrence(rec, nm, page) == _norm(rec.norm) = nm /\ rec.page = page

\* loop 1 without its second statement: the forced occurrences of the term
\* stay
RECURSIVE exclude_toponyms_keep_forced(_, _)
exclude_toponyms_keep_forced(st, terms) ==
    IF terms = <<>> THEN st
    ELSE LET nm == _norm(Head(terms))
             eg == IF nm # <<>> /\ nm \notin Range(st.exclude_global)
                   THEN Append(st.exclude_global, nm)
                   ELSE st.exclude_global
         IN  exclude_toponyms_keep_forced([st EXCEPT !.exclude_global = eg], Tail(terms))

\* loop 1 that lifts the global exclusion when the term is excluded already
RECURSIVE exclude_toponyms_toggle(_, _)
exclude_toponyms_toggle(st, terms) ==
    IF terms = <<>> THEN st
    ELSE LET nm == _norm(Head(terms))
             eg == IF nm # <<>> /\ nm \notin Range(st.exclude_global)
                   THEN Append(st.exclude_global, nm)
                   ELSE SelectSeq(st.exclude_global, LAMBDA x : x # nm)
             ip == SelectSeq(st.include_pages, LAMBDA rec : _norm(rec.norm) # nm)
         IN  exclude_toponyms_toggle([st EXCEPT !.exclude_global = eg, !.include_pages = ip],
                                     Tail(terms))

\* "1. Escludi interamente questi toponimi"
RECURSIVE exclude_toponyms(_, _)
exclude_toponyms(st, terms) ==
    IF terms = <<>> THEN st
    ELSE LET nm == _norm(Head(terms))
             eg == IF nm # <<>> /\ nm \notin Range(st.exclude_global)
                   THEN Append(st.exclude_global, nm)
                   ELSE st.exclude_global
             ip == SelectSeq(st.include_pages, LAMBDA rec : _norm(rec.norm) # nm)
         IN  exclude_toponyms([st EXCEPT !.exclude_global = eg, !.include_pages = ip],
                              Tail(terms))

\* "2. Escludi attestazioni specifiche (pagina)"
RECURSIVE exclude_attestations(_, _)
exclude_attestations(st, atts) ==
    IF atts = <<>> THEN st
    ELSE LET nm == _norm(Head(atts).term)
             page == Head(atts).page
             ip == SelectSeq(st.include_pages, LAMBDA rec : ~same_occurrence(rec, nm, page))
             already == \E i \in DOMAIN st.exclude_pages :
                            same_occurrence(st.exclude_pages[i], nm, page)
             ep == IF already THEN st.exclude_pages
                   ELSE Append(st.exclude_pages, [norm |-> nm, page |-> page])
         IN  IF nm = <<>> THEN exclude_attestations(st, Tail(atts))
             ELSE exclude_attestations(
                      [st EXCEPT !.include_pages = ip, !.exclude_pages = ep], Tail(atts))

\* loop 3 without its second statement: the page exclusions of the term stay
RECURSIVE include_toponyms_keep_pages(_, _)
include_toponyms_keep_pages(st, terms) ==
    IF terms = <<>> THEN st
    ELSE LET nm == _norm(Head(terms))
             eg == SelectSeq(st.exclude_global, LAMBDA x : _norm(x) # nm)
         IN  IF nm = <<>> THEN include_toponyms_keep_pages(st, Tail(terms))
             ELSE include_toponyms_keep_pages([st EXCEPT !.exclude_global = eg], Tail(terms))

\* "3. Re-includi globalmente i toponimi"
RECURSIVE include_toponyms(_, _)
include_toponyms(st, terms) ==
    IF terms = <<>> THEN st
    ELSE LET nm == _norm(Head(terms))
             eg == SelectSeq(st.exclude_global, LAMBDA x : _norm(x) # nm)
             ep == SelectSeq(st.exclude_pages, LAMBDA rec : _norm(rec.norm) # nm)
         IN  IF nm = <<>> THEN include_toponyms(st, Tail(terms))
             ELSE include_toponyms(
                      [st EXCEPT !.exclude_global = eg, !.exclude_pages = ep], Tail(terms))

\* loop 4 without its first statement: the page exclusion of the occurrence
\* stays
RECURSIVE include_attestations_keep_excluded(_, _)
include_attestations_keep_excluded(st, atts) ==
    IF atts = <<>> THEN st
    ELSE LET term == Head(atts).term
             nm == _norm(term)
             page == Head(atts).page
             already == \E i \in DOMAIN st.include_pages :
                            same_occurrence(st.include_pages[i], nm, page)
             ip == IF already THEN st.include_pages
                   ELSE Append(st.include_pages, [norm |-> nm, page |-> page, raw |-> term])
         IN  IF nm = <<>> THEN include_attestations_keep_excluded(st, Tail(atts))
             ELSE include_attestations_keep_excluded([st EXCEPT !.include_pages = ip], Tail(atts))

\* "4. Re-includi attestazioni specifiche"
RECURSIVE include_attestations(_, _)
include_attestations(st, atts) ==
    IF atts = <<>> THEN st
    ELSE LET term == Head(atts).term
             nm == _norm(term)
             page == Head(atts).page
             ep == SelectSeq(st.exclude_pages, LAMBDA rec : ~same_occurrence(rec, nm, page))
             already == \E i \in DOMAIN st.include_pages :
                            same_occurrence(st.include_pages[i], nm, page)
             ip == IF already THEN st.include_pages
                   ELSE Append(st.include_pages, [norm |-> nm, page |-> page, raw |-> term])
         IN  IF nm = <<>> THEN include_attestations(st, Tail(atts))
             ELSE include_attestations(
                      [st EXCEPT !.exclude_pages = ep, !.include_pages = ip], Tail(atts))

\* the state api_exclusions hands to _save_user_state for the request data
mutate(st, data) ==
    include_attestations(
        include_toponyms(
            exclude_attestations(
                exclude_toponyms(st, data.exclude_toponyms),
                data.exclude_attestations),
            data.include_toponyms),
        data.include_attestations)

---------------------------------------------------------------------------
(* Requests of the model *)

Attestations == [term : TermStrings, page : Pages]

NoRequest ==
    [exclude_toponyms |-> <<>>, exclude_attestations |-> <<>>,
     include_toponyms |-> <<>>, include_attestations |-> <<>>]

\* the requests that carry one curator action
OneAction ==
    {[NoRequest EXCEPT !.exclude_toponyms = <<t>>] : t \in TermStrings}
    \cup {[NoRequest EXCEPT !.exclude_attestations = <<a>>] : a \in Attestations}
    \cup {[NoRequest EXCEPT !.include_toponyms = <<t>>] : t \in TermStrings}
    \cup {[NoRequest EXCEPT !.include_attestations = <<a>>] : a \in Attestations}

Merge(r, q) ==
    [exclude_toponyms |-> r.exclude_toponyms \o q.exclude_toponyms,
     exclude_attestations |-> r.exclude_attestations \o q.exclude_attestations,
     include_toponyms |-> r.include_toponyms \o q.include_toponyms,
     include_attestations |-> r.include_attestations \o q.include_attestations]

\* the request bodies with at most n curator actions
RECURSIVE RequestsUpTo(_)
RequestsUpTo(n) ==
    IF n = 0 THEN {NoRequest}
    ELSE LET less == RequestsUpTo(n - 1)
         IN  less \cup {Merge(r, q) : r \in less, q \in OneAction}

Requests == RequestsUpTo(MaxActs)

Records(file) == Len(file.exclude_global) + Len(file.exclude_pages) + Len(file.include_pages)

---------------------------------------------------------------------------
(* The reconciliation service: one job after upload and extraction *)

BaseRows == [pagina : Pages, luogo : DocStrings]

AutoRows(stages) == [pagina : Pages, termine : DocStrings, stadio : stages]

\* _rebuild_filtered_csv: _compute_model, then _write_filtered_csv
materialize(m) ==
    [final_included |-> m.final_included,
     final_excluded |-> m.final_excluded,
     filtered_csv |-> _write_filtered_csv(m.final_included)]

\* a rebuild that reads no Override State
Rebuilt_without_state(base, excl, file, enum) ==
    materialize(_compute_model(base, excl, _save_user_state(EmptyState), enum))

Rebuilt(base, excl, file, enum) ==
    materialize(_compute_model(base, excl, file, enum))

\* no geocode_progress.json: api_geocode_progress reports "idle"
NoProgress == [status |-> "idle", done |-> 0, total |-> 0, current |-> <<>>]

StartRequests == 1..MaxStarts

\* a _geocode_worker thread: where it stands (pc), the locals of
\* phase_geocode_grouped (terms, i terms processed, cache, features,
\* rejects) and what it did so far: log, the progress records it wrote, each
\* with the number of terms processed when it was written; calls, the keys
\* it handed to geocode_with_cache; searches, the requests it sent to the
\* geocoding service; results, whether geocode_with_cache returned a
\* candidate, call by call; model, final_included when it read its term list
NoWorker ==
    [pc |-> "none", i |-> 0, terms |-> <<>>, cache |-> <<>>, features |-> <<>>,
     rejects |-> <<>>, log |-> <<>>, calls |-> <<>>, searches |-> 0, results |-> <<>>,
     model |-> <<>>]

BothCsv == {"annale_toponimi.csv", "annale_toponimi_filtered.csv"}

NoFile == [exists |-> FALSE, by |-> 0, rows |-> <<>>]

\* no annale_toponimi_grouped.geojson, no annale_toponimi_grouped_rejects.csv
NoOutputs == [geojson |-> NoFile, rejects |-> NoFile]

NoSave == [pc |-> "idle"]

\* no call of the resolver under study
NoLookup == [pc |-> "none"]

\* no worker thread has sent a request yet
NoNet == [pc |-> "none"]

NoLookups == lookup = NoLookup /\ net = NoNet

NoRead == [called |-> FALSE, raised |-> "", st |-> EmptyState]

\* no geocoding started, no request in flight, nothing saved by the
\* processor package
Quiet ==
    /\ progress = NoProgress
    /\ start_pc = [r \in StartRequests |-> "idle"]
    /\ worker = [r \in StartRequests |-> NoWorker]
    /\ saver = NoSave
    /\ reader = NoRead
    /\ exclusions_file = MissingExclusions
    /\ csv_files = BothCsv
    /\ geocache = <<>>
    /\ outputs = NoOutputs

\* api_upload has reset the Override State, phase_extract has written the two
\* artifacts (base_csv one of bases, excl_csv one of excls) and api_extract
\* has rebuilt the active term list
InitJob(bases, excls) ==
    /\ base_csv \in bases
    /\ excl_csv \in excls
    /\ state_file = _save_user_state(EmptyState)
    /\ \E enum \in Enumerations :
        \E r \in {Rebuilt(base_csv, excl_csv, state_file, enum)} :
            /\ final_included = r.final_included
            /\ final_excluded = r.final_excluded
            /\ filtered_csv = r.filtered_csv
    /\ Quiet
    /\ NoLookups

\* phase_extract tags every auto-rejected row "pre_filter" (extract.py)
Init ==
    InitJob(SeqsUpTo(BaseRows, MaxRaw), SeqsUpTo(AutoRows({"pre_filter"}), MaxAuto))

\* GET /api/toponyms: evaluates the model and changes no artifact
ApiToponyms ==
    /\ saver.pc = "idle"
    /\ \E enum \in Enumerations :
        \E m \in {_compute_model(base_csv, excl_csv, state_file, enum)} :
            /\ final_included' = m.final_included
            /\ final_excluded' = m.final_excluded
    /\ UNCHANGED <<job_vars, state_file, filtered_csv, geo_vars, save_vars, legacy_vars, run_vars,
                   lookup_vars>>

\* POST /api/exclusions with a body of requests, served alone: load, the
\* four loops, save, rebuild
PostExclusions(requests) ==
    /\ saver.pc = "idle"
    /\ \E loaded \in {_load_user_state(state_file)} :
        /\ loaded.raised = ""
        /\ \E data \in requests :
            \E file \in {_save_user_state(mutate(loaded.st, data))} :
                /\ Records(file) <= MaxRecs
                /\ state_file' = file
                /\ \E enum \in Enumerations :
                    \E r \in {Rebuilt(base_csv, excl_csv, file, enum)} :
                        /\ final_included' = r.final_included
                        /\ final_excluded' = r.final_excluded
                        /\ filtered_csv' = r.filtered_csv
    /\ UNCHANGED <<job_vars, geo_vars, save_vars, legacy_vars, run_vars, lookup_vars>>

ApiExclusions == PostExclusions(Requests)

Next == ApiToponyms \/ ApiExclusions

Spec == Init /\ [][Next]_vars

---------------------------------------------------------------------------
(* Batch geocoding: api_geocode_start and the _geocode_worker threads *)

\* one job: two accepted occurrences and one auto-rejected row
OneBase == <<[pagina |-> 1, luogo |-> Bagrave], [pagina |-> 2, luogo |-> Ci]>>
OneExcl == <<[pagina |-> 1, termine |-> Ci, stadio |-> "pre_filter"]>>

InitOne == InitJob({OneBase}, {OneExcl})

\* luoghi.split(";")
RECURSIVE split(_)
split(s) ==
    IF \A i \in DOMAIN s : s[i] # ";" THEN <<s>>
    ELSE LET i == CHOOSE i \in DOMAIN s : s[i] = ";" /\ \A j \in 1..(i - 1) : s[j] # ";"
         IN  <<SubSeq(s, 1, i - 1)>> \o split(SubSeq(s, i + 1, Len(s)))

\* [x.strip() for x in luoghi.split(";") if x.strip()]
_split_semicolon(luoghi) ==
    LET parts == split(luoghi)
    IN  SelectSeq([i \in DOMAIN parts |-> strip(parts[i])], LAMBDA x : x # <<>>)

\* the body of the inner loop of _collect_occurrences_by_term for the terms
\* of one row; occ keeps the insertion order of the dict
RECURSIVE AddOccurrences(_, _, _)
AddOccurrences(occ, pagina, terms) ==
    IF terms = <<>> THEN occ
    ELSE LET t == Head(terms)
             k == _norm(t)
             known == {i \in DOMAIN occ : occ[i].key = k}
             next ==
                IF known = {}
                THEN Append(occ, [key |-> k, raw |-> t, pages |-> {pagina}])
                ELSE [i \in DOMAIN occ |->
                        IF i \in known
                        THEN [key |-> k,
                              raw |-> IF Len(occ[i].raw) <= Len(t) THEN occ[i].raw ELSE t,
                              pages |-> occ[i].pages \cup {pagina}]
                        ELSE occ[i]]
         IN  AddOccurrences(next, pagina, Tail(terms))

RECURSIVE CollectRows(_, _)
CollectRows(occ, csv) ==
    IF csv = <<>> THEN occ
    ELSE CollectRows(AddOccurrences(occ, Head(csv).pagina,
                                    _split_semicolon(strip(Head(csv).luogo))),
                     Tail(csv))

\* list(occ.values()) of _collect_occurrences_by_term(csv_path), with the key
\* of each entry
_collect_occurrences_by_term(csv) == CollectRows(<<>>, csv)

\* the keys of occ: one per distinct normalized term of the active term list
occ_keys(csv) == {item.key : item \in Range(_collect_occurrences_by_term(csv))}

\* _write_progress that writes the status "running" whatever it is given
_write_progress_running(done, total, current, status) ==
    [status |-> "running", done |-> done, total |-> total, current |-> current]

\* _write_progress(job_dir, done, total, current, status); current is <<>>
\* for None
_write_progress(done, total, current, status) ==
    [status |-> status, done |-> done, total |-> total, current |-> current]

\* the text _geocode_worker writes as current with the status "error"
ErrorText == <<"e", "r", "r", "o", "r">>

\* cb of _geocode_worker that reports done + 1
progress_cb_one_more(done, total, current_term) ==
    _write_progress(done + 1, total, current_term, "running")

\* cb of _geocode_worker that reports the status "done"
progress_cb_done(done, total, current_term) ==
    _write_progress(done, total, current_term, "done")

\* cb of _geocode_worker
progress_cb(done, total, current_term) ==
    _write_progress(done, total, current_term, "running")

\* a progress record in the log of a worker
Logged(rec, processed) == [rec |-> rec, processed |-> processed]

---------------------------------------------------------------------------
(* Ranking of the results of the geocoding service: processor/geocode.py   *)

PRIMARY_PLACE_TYPES ==
    {"city", "town", "village", "hamlet", "municipality", "city_district", "borough",
     "quarter", "suburb", "neighbourhood", "neighborhood", "locality"}

SECONDARY_PLACE_TYPES ==
    {"county", "province", "region", "state", "country", "island", "archipelago",
     "state_district", "department"}

ACCEPT_BOUNDARY_TYPES == {"administrative"}

\* the pairs (class, type) of the points of interest _rank_tier accepts
POI_TYPES ==
    {<<"railway", "station">>, <<"aeroway", "aerodrome">>, <<"aeroway", "airport">>,
     <<"tourism", "attraction">>, <<"natural", "peak">>, <<"natural", "bay">>}

\* a value that is absent (None, or no such key) or a text
NoText == [given |-> FALSE, text |-> <<>>]
Text(t) == [given |-> TRUE, text |-> t]

\* a number that is absent or given; importance is counted in hundredths
NoNumber == [given |-> FALSE, value |-> 0]
Number(n) == [given |-> TRUE, value |-> n]

\* str.lower() on a class or a type
lower_token(t) ==
    CASE t = "Place" -> "place"
      [] t = "City" -> "city"
      [] OTHER -> t

DigitChars == {"0", "1", "2", "3", "4", "5", "6", "7", "8", "9"}

DigitOf(c) ==
    CASE c = "0" -> 0 [] c = "1" -> 1 [] c = "2" -> 2 [] c = "3" -> 3 [] c = "4" -> 4
      [] c = "5" -> 5 [] c = "6" -> 6 [] c = "7" -> 7 [] c = "8" -> 8 [] OTHER -> 9

\* the digits of a text handed to int(), after the sign
Unsigned(s) ==
    LET t == strip(s)
    IN  IF t # <<>> /\ Head(t) \in {"-", "+"} THEN Tail(t) ELSE t

\* int(s) does not raise ValueError
IsInt(s) == Unsigned(s) # <<>> /\ \A i \in DOMAIN Unsigned(s) : Unsigned(s)[i] \in DigitChars

RECURSIVE DecimalValue(_)
DecimalValue(ds) ==
    IF ds = <<>> THEN 0
    ELSE 10 * DecimalValue(SubSeq(ds, 1, Len(ds) - 1)) + DigitOf(ds[Len(ds)])

\* int(s) for a text that IsInt
int(s) ==
    IF Head(strip(s)) = "-" THEN 0 - DecimalValue(Unsigned(s)) ELSE DecimalValue(Unsigned(s))

\* _admin_level(hit): extratags.admin_level, then admin_level, the first
\* that int() accepts; 0 when there is none
_admin_level(hit) ==
    IF hit.extratags_admin_level.given /\ IsInt(hit.extratags_admin_level.text)
    THEN int(hit.extratags_admin_level.text)
    ELSE IF hit.admin_level.given /\ IsInt(hit.admin_level.text)
    THEN int(hit.admin_level.text)
    ELSE 0

\* _rank_tier(hit)
_rank_tier(hit) ==
    LET cls == lower_token(hit.class)
        typ == lower_token(hit.type)
        al == _admin_level(hit)
    IN  IF cls = "place" /\ typ \in PRIMARY_PLACE_TYPES THEN 0
        ELSE IF cls = "boundary" /\ typ \in ACCEPT_BOUNDARY_TYPES
        THEN IF 0 < al /\ al <= 4 THEN 0
             ELSE IF 5 <= al /\ al <= 6 THEN 1
             ELSE 2
        ELSE IF cls = "place" /\ typ \in SECONDARY_PLACE_TYPES THEN 2
        ELSE IF <<cls, typ>> \in POI_TYPES THEN 3
        ELSE IF hit.lat /\ hit.lon THEN 8
        ELSE 9

\* esonimi IT -> EN
EXONYMS_IT ==
    <<"p", "a", "r", "i", "g", "i">> :> <<"p", "a", "r", "i", "s">> @@
    <<"b", "e", "r", "n", "a">> :> <<"b", "e", "r", "n">> @@
    <<"f", "r", "a", "n", "c", "i", "a">> :> <<"f", "r", "a", "n", "c", "e">> @@
    <<"s", "p", "a", "g", "n", "a">> :> <<"s", "p", "a", "i", "n">> @@
    <<"b", "r", "a", "s", "i", "l", "e">> :> <<"b", "r", "a", "z", "i", "l">> @@
    <<"s", "v", "i", "z", "z", "e", "r", "a">> :> <<"s", "w", "i", "t", "z", "e", "r", "l", "a", "n", "d">> @@
    <<"l", "i", "b", "i", "a">> :> <<"l", "i", "b", "y", "a">> @@
    <<"p", "u", "g", "l", "i", "e">> :> <<"p", "u", "g", "l", "i", "a">> @@
    <<"r", "e", "g", "n", "o", " ", "u", "n", "i", "t", "o">> :> <<"u", "n", "i", "t", "e", "d", " ", "k", "i", "n", "g", "d", "o", "m">> @@
    <<"s", "t", "a", "t", "i", " ", "u", "n", "i", "t", "i">> :> <<"u", "n", "i", "t", "e", "d", " ", "s", "t", "a", "t", "e", "s">> @@
    <<"p", "a", "e", "s", "i", " ", "b", "a", "s", "s", "i">> :> <<"n", "e", "t", "h", "e", "r", "l", "a", "n", "d", "s">>

\* one element of the list a search returns.  kind is "dict" for a JSON
\* object, "http_error" for the object nominatim_search builds itself,
\* "null" for null, "text" for a JSON string; the other fields are the keys
\* of the object that the ranking reads
PlainHit ==
    [kind |-> "dict", class |-> "", type |-> "", extratags_admin_level |-> NoText,
     admin_level |-> NoText, lat |-> FALSE, lon |-> FALSE, osm_type |-> "None",
     osm_id |-> 0, importance |-> NoNumber, display_name |-> NoText,
     name |-> NoText, alt_name |-> NoText, address |-> <<>>, geojson |-> FALSE]

\* {"__http_error__": ...}
HttpError == [PlainHit EXCEPT !.kind = "http_error"]

Null == [PlainHit EXCEPT !.kind = "null"]

\* a populated place with coordinates
PlaceHit ==
    [PlainHit EXCEPT !.class = "place", !.type = "city", !.lat = TRUE, !.lon = TRUE,
                     !.osm_type = "relation", !.osm_id = 1, !.importance = Number(50)]

\* an object of no accepted class, without coordinates
PoorHit == [PlainHit EXCEPT !.class = "highway", !.type = "residential",
                            !.osm_type = "way", !.osm_id = 2]

\* what the geocoding service does with one search: no answer (network
\* exception or timeout), a status other than 200, a body that is not JSON,
\* a JSON body that is not a list, or a JSON list
Response(outcome, body) == [outcome |-> outcome, body |-> body]

\* the answers a worker thread of the batch run meets: a list with an
\* accepted place, a list with an object of no accepted class and no
\* coordinates, an empty list, no answer, a status other than 200, a body
\* that is not JSON, a JSON body that is not a list, the list [null]
Answers ==
    {Response("list", <<PlaceHit>>), Response("list", <<PoorHit>>), Response("list", <<>>),
     Response("network", <<>>), Response("status", <<>>), Response("not_json", <<>>),
     Response("not_list", <<>>), Response("list", <<Null>>)}

\* searches of geocode_name_robust for a name that has no exonym: "it",
\* "it_suffix", "global"
Variants == 1..3

\* nominatim_search: the list handed to geocode_name_robust
nominatim_search(response) ==
    CASE response.outcome \in {"network", "status"} -> <<HttpError>>
      [] response.outcome = "list" -> response.body
      [] OTHER -> <<>>

\* a search finds a file at annale_toponimi.csv even when there is none
readable_always(files) == TRUE

\* open(csv_path) of _collect_occurrences_by_term finds a file
readable(files) == files # {}

\* choose_active_csv and the read of the file it names
active_csv(files, filtered, base) ==
    IF "annale_toponimi_filtered.csv" \in files THEN filtered ELSE base

\* the value of a set of one element: binds a value once it is computed
Only(S) == CHOOSE x \in S : TRUE

\* a in b, for two texts
IsSubstring(a, b) ==
    \E i \in 0..(Len(b) - Len(a)) : SubSeq(b, i + 1, i + Len(a)) = a

\* (hit.get("display_name") or "").split(",")[0]
first_part(s) ==
    IF \A i \in DOMAIN s : s[i] # "," THEN s
    ELSE SubSeq(s, 1, (CHOOSE i \in DOMAIN s : s[i] = "," /\ \A j \in 1..(i - 1) : s[j] # ",") - 1)

\* _collect_names_for_match(hit): name, the parts of alt_name, the first
\* part of display_name
_collect_names_for_match(hit) ==
    (IF hit.name.given /\ hit.name.text # <<>> THEN {_norm(hit.name.text)} ELSE {})
    \cup {_norm(item) : item \in Range(_split_semicolon(hit.alt_name.text))}
    \cup (IF first_part(hit.display_name.text) # <<>>
          THEN {_norm(first_part(hit.display_name.text))} ELSE {})

\* _name_match_strength(q_norm, hit); address holds the values of the keys
\* country ... village
_name_match_strength(q_norm, hit) ==
    LET names == _collect_names_for_match(hit)
    IN  IF q_norm \in names THEN 2
        ELSE IF \E n \in names :
                    Len(q_norm) >= 4 /\ (IsSubstring(q_norm, n) \/ IsSubstring(n, q_norm))
        THEN 1
        ELSE IF \E i \in DOMAIN hit.address :
                    /\ hit.address[i] # <<>>
                    /\ Len(q_norm) >= 4
                    /\ IsSubstring(q_norm, _norm(hit.address[i]))
        THEN 1
        ELSE 0

\* _safe_float(hit.get("importance"))
_safe_float(x) == IF x.given THEN x.value ELSE 0

\* _rank_key without the two negations
_rank_key_ascending(hit, q_norm) ==
    <<_rank_tier(hit), _name_match_strength(q_norm, hit), _safe_float(hit.importance)>>

\* _rank_key(hit, q_norm)
_rank_key(hit, q_norm) ==
    <<_rank_tier(hit), 0 - _name_match_strength(q_norm, hit), 0 - _safe_float(hit.importance)>>

\* the keys of the elements of a list, computed once
rank_keys(hits, q_norm) == [i \in DOMAIN hits |-> _rank_key(hits[i], q_norm)]

\* the order of Python on tuples of three numbers
TupleLess(a, b) ==
    \/ a[1] < b[1]
    \/ a[1] = b[1] /\ a[2] < b[2]
    \/ a[1] = b[1] /\ a[2] = b[2] /\ a[3] < b[3]

\* where list.sort puts the element of key k among the keys of the elements
\* that came before it: behind those that are not greater
PlaceByKey(keys, k) ==
    LET greater == {i \in DOMAIN keys : TupleLess(k, keys[i])}
    IN  IF greater = {} THEN Len(keys) + 1
        ELSE CHOOSE i \in greater : \A j \in greater : i <= j

InsertAt(seq, at, x) == SubSeq(seq, 1, at - 1) \o <<x>> \o SubSeq(seq, at, Len(seq))

\* all_hits.sort(key=lambda h: _rank_key(h, q_norm)): the elements hits[n..]
\* are put into sorted, whose keys are sorted_keys
RECURSIVE sort_by_rank_key(_, _, _, _, _)
sort_by_rank_key(hits, keys, n, sorted, sorted_keys) ==
    IF n > Len(hits) THEN sorted
    ELSE Only({sort_by_rank_key(hits, keys, n + 1, InsertAt(sorted, at, hits[n]),
                                InsertAt(sorted_keys, at, keys[n]))
                 : at \in {PlaceByKey(sorted_keys, keys[n])}})

\* the variants list without the exonym search
variants_without_exonym(name) ==
    <<[label |-> "it", q |-> name, cc |-> "it"],
      [label |-> "it_suffix",
       q |-> name \o <<",", " ", "I", "t", "a", "l", "i", "a">>, cc |-> "it"],
      [label |-> "global", q |-> name, cc |-> ""]>>

\* the name and the country codes of each search, in the order of the
\* variants list
variants(name) ==
    LET q_norm == _norm(name)
        first == <<[label |-> "it", q |-> name, cc |-> "it"],
                   [label |-> "it_suffix",
                    q |-> name \o <<",", " ", "I", "t", "a", "l", "i", "a">>, cc |-> "it"],
                   [label |-> "global", q |-> name, cc |-> ""]>>
    IN  IF q_norm \in DOMAIN EXONYMS_IT /\ EXONYMS_IT[q_norm] # name
        THEN Append(first, [label |-> "exonym", q |-> EXONYMS_IT[q_norm], cc |-> ""])
        ELSE first

\* the loop raises on the list of a search that failed
Raises_on_error(h) == h.kind \in {"null", "http_error"}

\* the test "__http_error__" in arr[0] raises TypeError on an element that is
\* no container
Raises(h) == h.kind = "null"

\* every object of the list is kept, seen or not
first_of_key_unseen(arr, seen_keys) ==
    {i \in DOMAIN arr : arr[i].kind \in {"dict", "http_error"}}

\* for h in arr or []: the objects whose (osm_type, osm_id) was not seen;
\* a position of the list is kept when no earlier object of the list has
\* its key
first_of_key(arr, seen_keys) ==
    {i \in DOMAIN arr :
        /\ arr[i].kind \in {"dict", "http_error"}
        /\ <<arr[i].osm_type, arr[i].osm_id>> \notin seen_keys
        /\ \A j \in 1..(i - 1) :
            arr[j].kind \in {"dict", "http_error"} =>
                <<arr[j].osm_type, arr[j].osm_id>> # <<arr[i].osm_type, arr[i].osm_id>>}

\* the elements of seq at the positions of keep, in the order of seq
RECURSIVE Pick(_, _, _)
Pick(seq, keep, n) ==
    IF n > Len(seq) THEN <<>>
    ELSE IF n \in keep THEN <<seq[n]>> \o Pick(seq, keep, n + 1)
    ELSE Pick(seq, keep, n + 1)

CollectHits(arr, all_hits, seen_keys) ==
    Only({[all_hits |-> all_hits \o added,
           seen_keys |-> seen_keys \cup {<<h.osm_type, h.osm_id>> : h \in Range(added)}]
            : added \in {Pick(arr, first_of_key(arr, seen_keys), 1)}})

\* the loop over the variants from variant v on: raised_at is the variant
\* whose list made the loop raise, 0 when the loop ended
RECURSIVE SearchAll(_, _, _, _)
SearchAll(arrs, v, all_hits, seen_keys) ==
    IF v > Len(arrs) THEN [raised_at |-> 0, all_hits |-> all_hits]
    ELSE IF arrs[v] # <<>> /\ Raises(arrs[v][1])
    THEN [raised_at |-> v, all_hits |-> all_hits]
    ELSE IF arrs[v] # <<>> /\ arrs[v][1].kind = "http_error"
    THEN SearchAll(arrs, v + 1, all_hits, seen_keys)
    ELSE Only({SearchAll(arrs, v + 1, c.all_hits, c.seen_keys)
                 : c \in {CollectHits(arrs[v], all_hits, seen_keys)}})

\* no candidate
NoData ==
    [given |-> FALSE, display_name |-> <<>>, class |-> "", type |-> "",
     importance |-> NoNumber, osm_type |-> "None", osm_id |-> 0, raw |-> <<>>,
     admin_level |-> NoNumber, geometry_source |-> ""]

\* _normalize_hit_with_geom(hit, raw_name)
_normalize_hit_with_geom(hit, raw_name) ==
    [given |-> TRUE,
     display_name |-> IF hit.display_name.given THEN hit.display_name.text ELSE raw_name,
     class |-> hit.class, type |-> hit.type, importance |-> hit.importance,
     osm_type |-> hit.osm_type, osm_id |-> hit.osm_id, raw |-> raw_name,
     admin_level |-> IF _admin_level(hit) = 0 THEN NoNumber ELSE Number(_admin_level(hit)),
     geometry_source |-> IF hit.geojson THEN "polygon" ELSE "centroid"]

\* the end of geocode_name_robust: vs the variants, found the outcome of
\* the loop, all_hits the list after the sort
Resolution(name, vs, found, all_hits) ==
    LET sent == IF found.raised_at = 0 THEN Len(vs) ELSE found.raised_at
        issued == [v \in 1..sent |-> vs[v]]
        none == [raised |-> FALSE, ok |-> FALSE, reason |-> "", searches |-> sent,
                 issued |-> issued, all_hits |-> all_hits, data |-> NoData]
    IN  IF found.raised_at # 0
        THEN [none EXCEPT !.raised = TRUE, !.reason = "TypeError"]
        ELSE IF all_hits = <<>>
        THEN [none EXCEPT !.reason = "no_results"]
        ELSE IF _rank_tier(all_hits[1]) >= 9
        THEN [none EXCEPT !.reason = "no_accepted_candidate"]
        ELSE [none EXCEPT !.ok = TRUE, !.data = _normalize_hit_with_geom(all_hits[1], name)]

\* geocode_name_robust(name, ...) when the service gives answers[v] to the
\* search of variant v: raised with the searches sent until then, or the
\* candidate (ok, data), or the reason of the rejection; issued lists the
\* searches sent, all_hits the list that is ranked, sorted
geocode_name_robust(name, answers) ==
    Only(UNION {UNION {
        {Resolution(name, vs, found, all_hits)
            : all_hits \in {sort_by_rank_key(found.all_hits, keys, 1, <<>>, <<>>)}}
            : keys \in {rank_keys(found.all_hits, _norm(name))}}
            : vs \in {variants(name)},
              found \in {SearchAll([v \in 1..Len(variants(name)) |->
                                        nominatim_search(answers[v])], 1, <<>>, {})}})

\* cache[norm_key] = entry
CachePut(cache, norm_key, entry) ==
    [k \in DOMAIN cache \cup {norm_key} |-> IF k = norm_key THEN entry ELSE cache[k]]

\* an entry of the cache.  shape is "outcome" for an object with the key
\* ok, "legacy" for an object without it that has the key class or lat (the
\* candidate itself), "null" for null, "other" for anything else; reason ""
\* stands for an object without the key reason
Outcome(ok, reason, data) == [shape |-> "outcome", ok |-> ok, reason |-> reason, data |-> data]

\* a miss that stores candidates only: a rejection is returned and the cache
\* left as it was
cache_miss_success_only(cache, norm_key, found) ==
    [raised |-> found.raised, ok |-> found.ok /\ ~found.raised, reason |-> found.reason,
     data |-> IF found.raised THEN NoData ELSE found.data, searches |-> found.searches,
     cache |-> IF ~found.raised /\ found.ok
               THEN CachePut(cache, norm_key, Outcome(TRUE, found.reason, found.data))
               ELSE cache,
     written |-> ~found.raised /\ found.ok]

\* the end of geocode_with_cache after a miss: found is what
\* geocode_name_robust returned or raised
cache_miss(cache, norm_key, found) ==
    IF found.raised
    THEN [raised |-> TRUE, ok |-> FALSE, reason |-> found.reason, data |-> NoData,
          searches |-> found.searches, cache |-> cache, written |-> FALSE]
    ELSE [raised |-> FALSE, ok |-> found.ok, reason |-> found.reason, data |-> found.data,
          searches |-> found.searches,
          cache |-> CachePut(cache, norm_key,
                             Outcome(found.ok,
                                     IF found.reason = "" /\ ~found.ok THEN "rejected"
                                     ELSE found.reason, found.data)),
          written |-> TRUE]

\* the return of geocode_with_cache for an entry it accepts
cache_hit(cache, entry) ==
    LET hit == [raised |-> FALSE, ok |-> FALSE, reason |-> "", data |-> NoData,
                searches |-> 0, cache |-> cache, written |-> FALSE]
    IN  IF entry.shape = "outcome" /\ entry.ok
        THEN [hit EXCEPT !.ok = entry.data.given, !.data = entry.data]
        ELSE IF entry.shape = "outcome"
        THEN [hit EXCEPT !.reason = IF entry.reason = "" THEN "cached_reject" ELSE entry.reason]
        ELSE IF entry.shape = "legacy"
        THEN [hit EXCEPT !.ok = TRUE, !.data = entry.data]
        ELSE [hit EXCEPT !.reason = "cached_none"]

\* geocode_with_cache(name, cache, ...): the outcome (ok: data is not None),
\* the cache afterwards and whether the cache file was written
geocode_with_cache(name, cache, answers) ==
    IF _norm(name) \in DOMAIN cache /\ cache[_norm(name)].shape # "other"
    THEN cache_hit(cache, cache[_norm(name)])
    ELSE Only({cache_miss(cache, _norm(name), found)
                 : found \in {geocode_name_robust(name, answers)}})

\* the properties "luogo", "pagine" and "mentions" of the feature of item
make_feature_from_hit(item) ==
    [luogo |-> item.raw,
     pagine |-> sorted_pages(Iterate(item.pages, [i \in 1..MaxPage |-> i])),
     mentions |-> Cardinality(item.pages)]

\* api_geocode_start up to its answer to "previene doppio worker": the
\* rebuild, then the look at the progress file
StartCheck(r) ==
    /\ start_pc[r] = "idle"
    /\ saver.pc = "idle"
    /\ \E enum \in Enumerations :
        \E m \in {Rebuilt(base_csv, excl_csv, state_file, enum)} :
            /\ final_included' = m.final_included
            /\ final_excluded' = m.final_excluded
            /\ filtered_csv' = m.filtered_csv
    /\ start_pc' = [start_pc EXCEPT ![r] =
                        IF progress.status \in {"starting", "running"}
                        THEN "rejected" ELSE "checked"]
    /\ UNCHANGED <<job_vars, state_file, progress, worker, save_vars, legacy_vars, run_vars,
                   lookup_vars>>

\* threading.Thread(target=_geocode_worker, ...).start() and the answer
StartLaunch(r) ==
    /\ start_pc[r] = "checked"
    /\ start_pc' = [start_pc EXCEPT ![r] = "accepted"]
    /\ worker' = [worker EXCEPT ![r] = [NoWorker EXCEPT !.pc = "launched"]]
    /\ UNCHANGED <<job_vars, state_file, model_vars, progress, save_vars, legacy_vars,
                   run_vars, lookup_vars>>

\* the first statement of the thread: _write_progress(job_dir, 0, 0, None,
\* "starting")
WorkerStarting(r) ==
    /\ worker[r].pc = "launched"
    /\ \E rec \in {_write_progress(0, 0, <<>>, "starting")} :
        /\ progress' = rec
        /\ worker' = [worker EXCEPT ![r].pc = "starting",
                                    ![r].log = Append(@, Logged(rec, 0))]
    /\ UNCHANGED <<job_vars, state_file, model_vars, start_pc, save_vars, legacy_vars,
                   run_vars, lookup_vars>>

\* phase_geocode_grouped up to its loop: the active term list is read and
\* the cache loaded; with no term list to read, FileNotFoundError leaves the
\* function and _geocode_worker writes "error"
WorkerCollect(r) ==
    /\ worker[r].pc = "starting"
    /\ IF readable(csv_files)
       THEN /\ worker' = [worker EXCEPT
                            ![r].pc = "loop",
                            ![r].terms = _collect_occurrences_by_term(
                                             active_csv(csv_files, filtered_csv, base_csv)),
                            ![r].cache = geocache,
                            ![r].model = final_included]
            /\ UNCHANGED progress
       ELSE \E rec \in {_write_progress(0, 0, ErrorText, "error")} :
                /\ progress' = rec
                /\ worker' = [worker EXCEPT ![r].pc = "error",
                                            ![r].log = Append(@, Logged(rec, 0))]
    /\ UNCHANGED <<job_vars, state_file, model_vars, start_pc, save_vars, legacy_vars,
                   run_vars, lookup_vars>>

\* one turn of the loop of phase_geocode_grouped when the geocoding service
\* gives answers[v] to the search of variant v: progress_cb(i-1, total,
\* raw), geocode_with_cache, then a feature or a reject row; an exception
\* that leaves geocode_with_cache ends in the except branch of
\* _geocode_worker
WorkerTermAnswered(r, answers) ==
    /\ worker[r].pc = "loop"
    /\ worker[r].i < Len(worker[r].terms)
    /\ \E item \in {worker[r].terms[worker[r].i + 1]} :
        \E note \in {progress_cb(worker[r].i, Len(worker[r].terms), item.raw)} :
        \E res \in {geocode_with_cache(item.raw, worker[r].cache, answers)} :
            IF res.raised
            THEN \E rec \in {_write_progress(0, 0, ErrorText, "error")} :
                    /\ progress' = rec
                    /\ worker' = [worker EXCEPT
                            ![r].pc = "error",
                            ![r].calls = Append(@, _norm(item.raw)),
                            ![r].searches = @ + res.searches,
                            ![r].log = @ \o <<Logged(note, worker[r].i),
                                              Logged(rec, worker[r].i)>>]
                    /\ UNCHANGED geocache
            ELSE /\ progress' = note
                 /\ worker' = [worker EXCEPT
                            ![r].i = @ + 1,
                            ![r].cache = res.cache,
                            ![r].calls = Append(@, _norm(item.raw)),
                            ![r].searches = @ + res.searches,
                            ![r].results = Append(@, res.ok),
                            ![r].features =
                                IF res.ok THEN Append(@, make_feature_from_hit(item)) ELSE @,
                            ![r].rejects =
                                IF res.ok THEN @
                                ELSE Append(@, [luogo |-> item.raw,
                                                 reason |-> IF res.reason = "" THEN "rejected"
                                                            ELSE res.reason]),
                            ![r].log = Append(@, Logged(note, worker[r].i))]
                 /\ geocache' = IF res.written THEN res.cache ELSE geocache
    /\ UNCHANGED <<job_vars, state_file, model_vars, start_pc, save_vars, legacy_vars,
                   csv_files, outputs>>

\* the turn of the loop, whatever the geocoding service answers to each of
\* its searches
WorkerTerm(r) ==
    /\ worker[r].pc = "loop"
    /\ worker[r].i < Len(worker[r].terms)
    /\ \E answers \in [Variants -> Answers] : WorkerTermAnswered(r, answers)
    /\ UNCHANGED lookup_vars

\* after the loop: the GeoJSON is written, the rejects CSV is written when
\* there are rejects, then progress_cb(total, total, None)
WorkerLast(r) ==
    /\ worker[r].pc = "loop"
    /\ worker[r].i = Len(worker[r].terms)
    /\ outputs' =
        [geojson |-> [exists |-> TRUE, by |-> r, rows |-> worker[r].features],
         rejects |-> IF worker[r].rejects # <<>>
                     THEN [exists |-> TRUE, by |-> r, rows |-> worker[r].rejects]
                     ELSE outputs.rejects]
    /\ \E note \in {progress_cb(worker[r].i, worker[r].i, <<>>)} :
        /\ progress' = note
        /\ worker' = [worker EXCEPT ![r].pc = "written",
                                    ![r].log = Append(@, Logged(note, worker[r].i))]
    /\ UNCHANGED <<job_vars, state_file, model_vars, start_pc, save_vars, legacy_vars,
                   csv_files, geocache, lookup_vars>>

\* _write_progress(job_dir, 1, 1, None, "done")
WorkerDone(r) ==
    /\ worker[r].pc = "written"
    /\ \E rec \in {_write_progress(1, 1, <<>>, "done")} :
        /\ progress' = rec
        /\ worker' = [worker EXCEPT ![r].pc = "done",
                                    ![r].log = Append(@, Logged(rec, worker[r].i))]
    /\ UNCHANGED <<job_vars, state_file, model_vars, start_pc, save_vars, legacy_vars,
                   run_vars, lookup_vars>>

\* the steps of the thread of start request r
WorkerStep(r) ==
    \/ WorkerStarting(r)
    \/ WorkerCollect(r)
    \/ WorkerTerm(r)
    \/ WorkerLast(r)
    \/ WorkerDone(r)

NextGeo ==
    \E r \in StartRequests :
        \/ StartCheck(r)
        \/ StartLaunch(r)
        \/ WorkerStep(r)

SpecGeo == InitOne /\ [][NextGeo]_vars

\* every thread that was started keeps being scheduled, and every search it
\* sends returns (session.get has a timeout of 25 seconds): a thread that
\* can take its next step takes it
SpecGeoFair == SpecGeo /\ \A r \in StartRequests : WF_<<worker[r]>>(WorkerStep(r))

\* a term a curator can send: two names and the separator of the luogo cell
BagraveCi == Bagrave \o <<";">> \o Ci

\* the requests of the curator between and during geocoding runs
BatchRequests ==
    {[NoRequest EXCEPT !.exclude_toponyms = <<Ci>>],
     [NoRequest EXCEPT !.include_toponyms = <<Ci>>],
     [NoRequest EXCEPT !.include_attestations = <<[term |-> BagraveCi, page |-> 1]>>]}

CuratorRequest == PostExclusions(BatchRequests)

\* a start request sent when every run started before has ended
PatientStart(r) ==
    /\ \A q \in StartRequests :
        /\ worker[q].pc \in {"none", "done", "error"}
        /\ start_pc[q] # "checked"
    /\ StartCheck(r)

NextBatch ==
    \/ CuratorRequest
    \/ \E r \in StartRequests :
        \/ PatientStart(r)
        \/ StartLaunch(r)
        \/ WorkerStep(r)

\* the server and one curator, who edits the exclusions at any time and
\* asks for a new geocoding run only when the previous one has ended
SpecBatch == InitOne /\ [][NextBatch]_vars

\* the job directories _geocode_worker can be given: with or without each
\* of the two term lists, with or without a cache of an earlier run
JobCaches ==
    {<<>>} \cup {[k \in {_norm(Ci)} |->
                    IF ok THEN Outcome(TRUE, "", _normalize_hit_with_geom(PlaceHit, Ci))
                    ELSE Outcome(FALSE, "no_results", NoData)] : ok \in BOOLEAN}

\* _geocode_worker(job_dir) called on one of these directories
InitDirect ==
    /\ base_csv = OneBase
    /\ excl_csv = OneExcl
    /\ state_file = _save_user_state(EmptyState)
    /\ \E r \in {Rebuilt(base_csv, excl_csv, state_file, [i \in 1..MaxPage |-> i])} :
            /\ final_included = r.final_included
            /\ final_excluded = r.final_excluded
            /\ filtered_csv = r.filtered_csv
    /\ progress = NoProgress
    /\ start_pc = [r \in StartRequests |-> IF r = 1 THEN "accepted" ELSE "idle"]
    /\ worker = [r \in StartRequests |->
                    IF r = 1 THEN [NoWorker EXCEPT !.pc = "launched"] ELSE NoWorker]
    /\ saver = NoSave
    /\ reader = NoRead
    /\ exclusions_file = MissingExclusions
    /\ csv_files \in SUBSET BothCsv
    /\ geocache \in JobCaches
    /\ outputs = NoOutputs
    /\ NoLookups

NextDirect == \E r \in StartRequests : WorkerStep(r)

SpecDirect == InitDirect /\ [][NextDirect]_vars

---------------------------------------------------------------------------
(* The ranking functions on their own: _rank_tier of one result *)

\* the classes and the types of the results put to _rank_tier
HitClasses ==
    {"place", "Place", "boundary", "railway", "aeroway", "tourism", "natural", "highway", ""}

HitTypes ==
    PRIMARY_PLACE_TYPES \cup SECONDARY_PLACE_TYPES \cup ACCEPT_BOUNDARY_TYPES
        \cup {t[2] : t \in POI_TYPES} \cup {"City", "residential", ""}

\* admin_level as the service writes it, and texts int() refuses
LevelTexts ==
    {NoText, Text(<<>>), Text(<<"x">>), Text(<<"2">>), Text(<<"4">>), Text(<<"6">>),
     Text(<<"8">>), Text(<<"1", "0">>)}

TierHits ==
    {[PlainHit EXCEPT !.class = c, !.type = t, !.extratags_admin_level = e,
                      !.admin_level = a, !.lat = lat, !.lon = lon]
        : c \in HitClasses, t \in HitTypes, e \in {NoText, Text(<<"x">>), Text(<<"4">>)},
          a \in LevelTexts, lat \in BOOLEAN, lon \in BOOLEAN}

\* every variable but lookup and net: one job, nothing running
Idle ==
    /\ base_csv = OneBase
    /\ excl_csv = OneExcl
    /\ state_file = _save_user_state(EmptyState)
    /\ \E r \in {Rebuilt(base_csv, excl_csv, state_file, [i \in 1..MaxPage |-> i])} :
            /\ final_included = r.final_included
            /\ final_excluded = r.final_excluded
            /\ filtered_csv = r.filtered_csv
    /\ Quiet

InitTier ==
    /\ Idle
    /\ net = NoNet
    /\ \E hit \in TierHits : lookup = [pc |-> "hit", hit |-> hit, tier |-> 0]

\* _rank_tier(hit) is called
RankTier ==
    /\ lookup.pc = "hit"
    /\ lookup' = [lookup EXCEPT !.pc = "ranked", !.tier = _rank_tier(lookup.hit)]
    /\ UNCHANGED <<job_vars, state_file, model_vars, geo_vars, save_vars, legacy_vars,
                   run_vars, net>>

SpecTier == InitTier /\ [][RankTier]_vars

---------------------------------------------------------------------------
(* Curator mutation requests with several actions, one after another *)

\* the terms the curator acts on: a form of the key of "Bà" and "Ci"
CuratorTerms == {Ba, Ci}

\* at most one entry in each of the four lists of the request body
AtMostOne(S) == {<<>>} \cup {<<x>> : x \in S}

\* the occurrences the curator acts on: "Ba" on both pages, "Ci" on the
\* page of its auto-rejected row
CuratorAttestations ==
    {[term |-> Ba, page |-> p] : p \in Pages} \cup {[term |-> Ci, page |-> 1]}

CuratorRequests ==
    [exclude_toponyms : AtMostOne(CuratorTerms),
     exclude_attestations : AtMostOne(CuratorAttestations),
     include_toponyms : AtMostOne(CuratorTerms),
     include_attestations : AtMostOne(CuratorAttestations)]

\* what the job directory held before a request
Held == [state_file |-> state_file, final_included |-> final_included,
         final_excluded |-> final_excluded, filtered_csv |-> filtered_csv]

\* the job of OneBase and OneExcl; no request has been served
InitCurator ==
    /\ Idle
    /\ net = NoNet
    /\ lookup = [pc |-> "open"]

\* POST /api/exclusions with the body data, served alone: load, the four
\* loops, save, rebuild.  lookup keeps the body, what the directory held
\* before, and whether the request before had the same body
PostCurator ==
    /\ saver.pc = "idle"
    /\ \E loaded \in {_load_user_state(state_file)} :
        /\ loaded.raised = ""
        /\ \E data \in CuratorRequests :
            \E file \in {_save_user_state(mutate(loaded.st, data))} :
                /\ Records(file) <= MaxRecs
                /\ state_file' = file
                /\ \E enum \in Enumerations :
                    \E r \in {Rebuilt(base_csv, excl_csv, file, enum)} :
                        /\ final_included' = r.final_included
                        /\ final_excluded' = r.final_excluded
                        /\ filtered_csv' = r.filtered_csv
                /\ lookup' = [pc |-> "served", data |-> data, before |-> Held,
                              again |-> lookup.pc = "served" /\ lookup.data = data]
    /\ UNCHANGED <<job_vars, geo_vars, save_vars, legacy_vars, run_vars, net>>

SpecCurator == InitCurator /\ [][PostCurator]_vars

---------------------------------------------------------------------------
(* The working display: _compute_model over forms of different length *)

\* "Bà" written with a combining mark: three characters
Badecomposed == <<"B", "a", "^">>

\* the forms of the documents and of the curator: three forms of one key,
\* two of them of the same length, and a form of another key
DisplayForms == {Ba, Bagrave, Badecomposed, Ci}

\* the records include_attestations appends: {"norm": nm, "page": page,
\* "raw": term}
IncludeRecords == {[norm |-> _norm(t), page |-> p, raw |-> t] : t \in DisplayForms, p \in Pages}

\* phase_extract has written its two files, the curator has forced some
\* occurrences in, and the model has not been computed yet
InitDisplay ==
    /\ base_csv \in SeqsUpTo([pagina : Pages, luogo : DisplayForms], MaxRaw)
    /\ excl_csv \in SeqsUpTo([pagina : Pages, termine : DisplayForms, stadio : {"ner"}], MaxAuto)
    /\ \E recs \in SeqsUpTo(IncludeRecords, MaxRecs) :
        state_file = _save_user_state([EmptyState EXCEPT !.include_pages = recs])
    /\ final_included = <<>>
    /\ final_excluded = <<>>
    /\ filtered_csv = <<>>
    /\ Quiet
    /\ net = NoNet
    /\ lookup = [pc |-> "extracted"]

\* _rebuild_filtered_csv(job_dir)
RebuildFiltered ==
    /\ lookup.pc = "extracted"
    /\ \E enum \in Enumerations :
        \E m \in {Rebuilt(base_csv, excl_csv, state_file, enum)} :
            /\ final_included' = m.final_included
            /\ final_excluded' = m.final_excluded
            /\ filtered_csv' = m.filtered_csv
    /\ lookup' = [pc |-> "rebuilt"]
    /\ UNCHANGED <<job_vars, state_file, geo_vars, save_vars, legacy_vars, run_vars, net>>

SpecDisplay == InitDisplay /\ [][RebuildFiltered]_vars

---------------------------------------------------------------------------
(* The model of any three artifacts: _compute_model over an Override State *)
(* that may contradict itself                                              *)

\* the objects annale_user_state.json may hold: any global exclusion, any
\* excluded occurrence and any forced occurrence, also of one term and page
AnyStates ==
    [exclude_global : SeqsUpTo(Keys, 1),
     exclude_pages : SeqsUpTo([norm : Keys, page : Pages], 1),
     include_pages : SeqsUpTo([norm : Keys, page : Pages, raw : {Ci}], 1)]

InitAny ==
    /\ base_csv \in SeqsUpTo(BaseRows, MaxRaw)
    /\ excl_csv \in SeqsUpTo(AutoRows({"ner"}), MaxAuto)
    /\ \E st \in AnyStates : state_file = DictFile(StateFields, st)
    /\ final_included = <<>>
    /\ final_excluded = <<>>
    /\ filtered_csv = <<>>
    /\ Quiet
    /\ net = NoNet
    /\ lookup = [pc |-> "extracted"]

SpecAny == InitAny /\ [][RebuildFiltered]_vars

---------------------------------------------------------------------------
(* The normalizers on their own: server._norm and processor.utils *)

\* the characters of the strings: letters in both cases, "|" for the dotless
\* i (U+0131) whose capital is I, "@" for a precomposed accented a, "^" for
\* a combining mark, the space and "~" for a tab
NormChars == {"a", "A", "i", "I", "|", "@", "^", " ", "~"}

NormStrings == SeqsUpTo(NormChars, MaxChars)

\* str.upper() on one character
upper(c) ==
    CASE c = "a" -> "A"
      [] c = "i" -> "I"
      [] c = "|" -> "I"
      [] OTHER -> c

\* t is s with some letters in the other case
CaseVariants(s) ==
    {t \in [DOMAIN s -> NormChars] : \A n \in DOMAIN s : t[n] \in {s[n], upper(s[n]), lower(s[n])}}

\* s without its combining marks, precomposed letters taken apart
Unmarked(s) == SelectSeq(Decompose(s), LAMBDA ch : ~combining(ch))

\* t has the letters of s with other combining marks
MarkVariants(s) == {t \in NormStrings : Unmarked(t) = Unmarked(s)}

\* the words of s: the runs of characters between whitespace
RECURSIVE Words(_, _, _)
Words(s, word, out) ==
    IF s = <<>> THEN (IF word = <<>> THEN out ELSE Append(out, word))
    ELSE IF IsSpace(Head(s))
    THEN Words(Tail(s), <<>>, IF word = <<>> THEN out ELSE Append(out, word))
    ELSE Words(Tail(s), Append(word, Head(s)), out)

\* t has the words of s with other whitespace around and between them
SpaceVariants(s) == {t \in NormStrings : Words(t, <<>>, <<>>) = Words(s, <<>>, <<>>)}

\* the keys the normalizers give for s and one variant t of it
Keyed(kind, s, t) ==
    [pc |-> "keys", kind |-> kind, s |-> s, t |-> t,
     key_s |-> _norm(s), key_t |-> _norm(t), again |-> _norm(_norm(s)),
     by_name |-> normalize_name(s), by_utils |-> utils_norm(s)]

InitNorm ==
    /\ Idle
    /\ net = NoNet
    /\ \E s \in NormStrings : lookup = [pc |-> "string", s |-> s]

\* the normalizers are called with s and with a string that differs from s
\* in letter case only
NormCase ==
    /\ lookup.pc = "string"
    /\ \E t \in CaseVariants(lookup.s) : lookup' = Keyed("case", lookup.s, t)
    /\ UNCHANGED <<job_vars, state_file, model_vars, geo_vars, save_vars, legacy_vars,
                   run_vars, net>>

\* ... in combining marks only
NormMarks ==
    /\ lookup.pc = "string"
    /\ \E t \in MarkVariants(lookup.s) : lookup' = Keyed("marks", lookup.s, t)
    /\ UNCHANGED <<job_vars, state_file, model_vars, geo_vars, save_vars, legacy_vars,
                   run_vars, net>>

\* ... in the amount of whitespace only
NormSpace ==
    /\ lookup.pc = "string"
    /\ \E t \in SpaceVariants(lookup.s) : lookup' = Keyed("space", lookup.s, t)
    /\ UNCHANGED <<job_vars, state_file, model_vars, geo_vars, save_vars, legacy_vars,
                   run_vars, net>>

NextNorm == NormCase \/ NormMarks \/ NormSpace

SpecNorm == InitNorm /\ [][NextNorm]_vars

---------------------------------------------------------------------------
(* The page ranges of processor/utils.py: parse_include_ranges and         *)
(* index_in_includes                                                       *)

Digits == {"0", "1", "3"}

\* the characters of the range strings: digits, the dash and the comma
RangeChars == Digits \cup {"-", ","}

DigitValue(c) == CASE c = "0" -> 0 [] c = "1" -> 1 [] c = "3" -> 3

\* the value of a string of decimal digits
RECURSIVE Decimal(_, _)
Decimal(s, acc) ==
    IF s = <<>> THEN acc ELSE Decimal(Tail(s), 10 * acc + DigitValue(Head(s)))

AllDigits(s) == s # <<>> /\ \A i \in DOMAIN s : s[i] \in Digits

\* int(s) of a string: ok is FALSE where int raises ValueError
int_str(s) ==
    IF AllDigits(s) THEN [ok |-> TRUE, value |-> Decimal(s, 0)]
    ELSE IF s # <<>> /\ Head(s) = "-" /\ AllDigits(Tail(s))
    THEN [ok |-> TRUE, value |-> 0 - Decimal(Tail(s), 0)]
    ELSE [ok |-> FALSE, value |-> 0]

\* re.split(r"[,\s]+", ranges.strip()) without its empty chunks
RECURSIVE RangeChunks(_, _, _)
RangeChunks(s, chunk, out) ==
    IF s = <<>> THEN (IF chunk = <<>> THEN out ELSE Append(out, chunk))
    ELSE IF Head(s) = ","
    THEN RangeChunks(Tail(s), <<>>, IF chunk = <<>> THEN out ELSE Append(out, chunk))
    ELSE RangeChunks(Tail(s), Append(chunk, Head(s)), out)

\* the position of the first dash of chunk, 0 when it has none
FirstDash(chunk) ==
    IF \E i \in DOMAIN chunk : chunk[i] = "-"
    THEN CHOOSE i \in DOMAIN chunk :
            chunk[i] = "-" /\ \A j \in 1..(i - 1) : chunk[j] # "-"
    ELSE 0

Max(x, y) == IF x >= y THEN x ELSE y
Min(x, y) == IF x <= y THEN x ELSE y

\* what one chunk appends to out: a 0-based pair, or nothing when int raises
chunk_ranges(chunk, total_pages) ==
    IF FirstDash(chunk) > 0
    THEN LET d == FirstDash(chunk)
             ia == int_str(SubSeq(chunk, 1, d - 1))
             ib == int_str(SubSeq(chunk, d + 1, Len(chunk)))
             a == Max(1, ia.value)
             b == Min(total_pages, ib.value)
         IN  IF ~ia.ok \/ ~ib.ok THEN <<>>
             ELSE IF a > b THEN <<<<b - 1, a - 1>>>> ELSE <<<<a - 1, b - 1>>>>
    ELSE LET ik == int_str(chunk)
             k == Max(1, Min(total_pages, ik.value))
         IN  IF ik.ok THEN <<<<k - 1, k - 1>>>> ELSE <<>>

\* the order of tuples
PairBefore(p, q) == p[1] < q[1] \/ (p[1] = q[1] /\ p[2] <= q[2])

\* out.sort()
RECURSIVE sort_ranges(_)
sort_ranges(out) ==
    IF out = <<>> THEN <<>>
    ELSE LET least == CHOOSE i \in DOMAIN out : \A j \in DOMAIN out : PairBefore(out[i], out[j])
         IN  <<out[least]>>
                \o sort_ranges(SubSeq(out, 1, least - 1) \o SubSeq(out, least + 1, Len(out)))

\* "merge contigui": a pair that starts at most one page after the end of
\* the last merged pair extends it
RECURSIVE merge_ranges(_, _)
merge_ranges(out, merged) ==
    IF out = <<>> THEN merged
    ELSE LET p == Head(out)
             n == Len(merged)
         IN  IF n = 0 \/ p[1] > merged[n][2] + 1
             THEN merge_ranges(Tail(out), Append(merged, p))
             ELSE merge_ranges(Tail(out),
                               [merged EXCEPT ![n] = <<merged[n][1], Max(merged[n][2], p[2])>>])

RECURSIVE collect_ranges(_, _)
collect_ranges(chunks, total_pages) ==
    IF chunks = <<>> THEN <<>>
    ELSE chunk_ranges(Head(chunks), total_pages) \o collect_ranges(Tail(chunks), total_pages)

\* parse_include_ranges(ranges, total_pages): None for an empty string
parse_include_ranges(ranges, total_pages) ==
    IF ranges = <<>> THEN None
    ELSE Given(merge_ranges(sort_ranges(collect_ranges(RangeChunks(ranges, <<>>, <<>>),
                                                       total_pages)), <<>>))

\* index_in_includes(idx, includes)
index_in_includes(idx, includes) ==
    \/ ~includes.given
    \/ includes.rows = <<>>
    \/ \E i \in DOMAIN includes.rows : includes.rows[i][1] <= idx /\ idx <= includes.rows[i][2]

InitRanges ==
    /\ Idle
    /\ net = NoNet
    /\ \E ranges \in SeqsUpTo(RangeChars, MaxRangeLen) :
        \E total_pages \in 1..MaxTotal :
            lookup = [pc |-> "asked", ranges |-> ranges, total_pages |-> total_pages,
                      includes |-> None, selected |-> {}]

\* includes = parse_include_ranges(ranges, total_pages), then the pages of
\* the document that index_in_includes lets through
ParseIncludeRanges ==
    /\ lookup.pc = "asked"
    /\ \E includes \in {parse_include_ranges(lookup.ranges, lookup.total_pages)} :
        lookup' = [lookup EXCEPT
                      !.pc = "parsed",
                      !.includes = includes,
                      !.selected = {idx \in 0..(lookup.total_pages - 1) :
                                        index_in_includes(idx, includes)}]
    /\ UNCHANGED <<job_vars, state_file, model_vars, geo_vars, save_vars, legacy_vars,
                   run_vars, net>>

SpecRanges == InitRanges /\ [][ParseIncludeRanges]_vars

---------------------------------------------------------------------------
(* The exclusions store of the processor package on its own: a save, then *)
(* load_user_exclusions_full                                              *)

\* the page numbers of the records given to save_user_exclusions: a page of
\* the document and 0
StorePages == {0, MaxPage}

\* well-formed records {name_norm, page}
StoreRecords == [name_norm : DocStrings, page : StorePages]

\* an attestation list given to save_user_exclusions, or None
StoreLists == {None} \cup {Given(rows) : rows \in SeqsUpTo(StoreRecords, 1)}

InitStore ==
    /\ Idle
    /\ net = NoNet
    /\ lookup = [pc |-> "open"]

\* save_user_exclusions(out_dir, names, excl, incl); lookup keeps the
\* arguments of the call and the two attestation lists stored before it
SaveStore ==
    /\ \E names \in SeqsUpTo(DocStrings, MaxNames) :
        \E excl \in StoreLists, incl \in StoreLists :
            /\ exclusions_file' = save_user_exclusions(exclusions_file, names, excl, incl)
            /\ lookup' = [pc |-> "saved", names |-> names, excl |-> excl, incl |-> incl,
                          before |->
                            [excluded_attestations |->
                                exclusions_file.data.excluded_attestations,
                             forced_include_attestations |->
                                exclusions_file.data.forced_include_attestations]]
    /\ UNCHANGED <<job_vars, state_file, model_vars, geo_vars, save_vars, run_vars, net>>

SpecStore == InitStore /\ [][SaveStore]_vars

---------------------------------------------------------------------------
(* Batch runs one after another while the geocoding service is out of     *)
(* reach for some of the lookups                                          *)

\* a search that fails: no answer (network exception or timeout) or a
\* status other than 200
FailedResponses == {Response("network", <<>>), Response("status", <<>>)}

\* geocode_with_cache finds no entry it accepts for the term of the next
\* turn of run r, and calls geocode_name_robust
Missed(r) ==
    \E k \in {_norm(worker[r].terms[worker[r].i + 1].raw)} :
        k \notin DOMAIN worker[r].cache \/ worker[r].cache[k].shape = "other"

\* failed holds the keys of the terms looked up with every search failing
InitOutage ==
    /\ Idle
    /\ net = NoNet
    /\ lookup = [pc |-> "watched", failed |-> {}]

\* a turn of the loop of phase_geocode_grouped in which every search that is
\* sent fails
OutageTerm(r) ==
    /\ worker[r].pc = "loop"
    /\ worker[r].i < Len(worker[r].terms)
    /\ \E answers \in [Variants -> FailedResponses] : WorkerTermAnswered(r, answers)
    /\ lookup' = [lookup EXCEPT !.failed =
                    IF Missed(r)
                    THEN @ \cup {_norm(worker[r].terms[worker[r].i + 1].raw)}
                    ELSE @]
    /\ UNCHANGED net

NextOutage ==
    \E r \in StartRequests :
        \/ PatientStart(r)
        \/ StartLaunch(r)
        \/ WorkerStep(r)
        \/ OutageTerm(r)

\* the runs of one job, each started when the one before has ended
SpecOutage == InitOutage /\ [][NextOutage]_vars

---------------------------------------------------------------------------
(* The resolver on its own: geocode_name_robust of one name *)

Parigi == <<"P", "a", "r", "i", "g", "i">>

\* a name without exonym and a name of the exonym table
ResolveNames == {Ci, Parigi}

\* the names of ResolveNames for which the service is asked a fourth time
ExonymNames == {Parigi}

\* another populated place of the same class, type and importance
TwinHit == [PlaceHit EXCEPT !.osm_id = 3]

\* the object of PlaceHit as another search describes it: no accepted
\* class, no coordinates
ShadowHit == [PoorHit EXCEPT !.osm_type = "relation", !.osm_id = 1]

\* a less important populated place that carries the name asked for
NamedHit ==
    [PlaceHit EXCEPT !.osm_id = 5, !.importance = Number(10),
                     !.display_name = Text(<<"C", "i", ",", " ", "I", "t">>)]

ResolveHits == {PlaceHit, TwinHit, ShadowHit, PoorHit, NamedHit}

ErrorResponses == {Response(o, <<>>) : o \in {"network", "status", "not_json", "not_list"}}

\* the JSON lists of at most n results, and the list [null]
ListResponses(n) ==
    {Response("list", body) : body \in SeqsUpTo(ResolveHits, n)}
        \cup {Response("list", <<Null>>)}

\* what the service can answer to the searches of one name
AnswersFor(name) ==
    IF name \in ExonymNames
    THEN [1..4 -> ListResponses(MaxHits - 1) \cup ErrorResponses]
    ELSE [1..3 -> ListResponses(MaxHits) \cup ErrorResponses]

NoResolution ==
    [raised |-> FALSE, ok |-> FALSE, reason |-> "", searches |-> 0, issued |-> <<>>,
     all_hits |-> <<>>, data |-> NoData]

InitResolve ==
    /\ Idle
    /\ net = NoNet
    /\ \E name \in ResolveNames :
        \E answers \in AnswersFor(name) :
            lookup = [pc |-> "asked", name |-> name, answers |-> answers,
                      out |-> NoResolution]

\* geocode_name_robust(name, session, out_dir) is called and returns or
\* raises
Resolve ==
    /\ lookup.pc = "asked"
    /\ \E out \in {geocode_name_robust(lookup.name, lookup.answers)} :
        lookup' = [lookup EXCEPT !.pc = "resolved", !.out = out]
    /\ UNCHANGED <<job_vars, state_file, model_vars, geo_vars, save_vars, legacy_vars,
                   run_vars, net>>

SpecResolve == InitResolve /\ [][Resolve]_vars

---------------------------------------------------------------------------
(* The cache on its own: two successive calls of geocode_with_cache *)

\* the entries a geocache_toponyms.json can hold for a key: the outcomes
\* geocode_with_cache writes, an outcome without reason, the candidate
\* itself (older layout), null, and an object of another kind
CacheEntries ==
    {Outcome(TRUE, "", _normalize_hit_with_geom(TwinHit, Ci)),
     Outcome(FALSE, "no_accepted_candidate", NoData),
     Outcome(FALSE, "", NoData),
     [shape |-> "legacy", ok |-> FALSE, reason |-> "",
      data |-> _normalize_hit_with_geom(TwinHit, Ci)],
     [shape |-> "null", ok |-> FALSE, reason |-> "", data |-> NoData],
     [shape |-> "other", ok |-> FALSE, reason |-> "", data |-> NoData]}

\* the caches phase_geocode_grouped can load: empty, or with an entry for
\* one of the keys
LoadedCaches ==
    {<<>>} \cup {[k \in {key} |-> e] : key \in {_norm(Ci), _norm(Bagrave)}, e \in CacheEntries}

InitCache ==
    /\ Idle
    /\ net = NoNet
    /\ \E name \in {Ci, <<"c", "i", " ">>} :
        \E cache \in LoadedCaches :
            \E answers \in [Variants -> Answers] :
                lookup = [pc |-> "cache", name |-> name, answers |-> answers,
                          loaded |-> cache, cache |-> cache, file |-> cache,
                          returned |-> <<>>]

\* data, reason, cache = geocode_with_cache(name, cache, session, out_dir),
\* called up to twice in a row on the same cache, while the service keeps
\* giving the same answers
CallCache ==
    /\ lookup.pc = "cache"
    /\ Len(lookup.returned) < 2
    /\ \E res \in {geocode_with_cache(lookup.name, lookup.cache, lookup.answers)} :
        lookup' = [lookup EXCEPT
                      !.cache = res.cache,
                      !.file = IF res.written THEN res.cache ELSE @,
                      !.returned = Append(@, res)]
    /\ UNCHANGED <<job_vars, state_file, model_vars, geo_vars, save_vars, legacy_vars,
                   run_vars, net>>

SpecCache == InitCache /\ [][CallCache]_vars

---------------------------------------------------------------------------
(* The requests to the geocoding service, one by one: the batch runs of    *)
(* several jobs, each in its own thread, and the clock                     *)

GEOCODING_SLEEP_SECONDS == 1

Jobs == 1..MaxJobs

\* the thread of the batch run of one job: where it stands, the searches it
\* still has to send, when its time.sleep ends, whether and when its latest
\* search returned
NoThread == [pc |-> "none", left |-> 0, wake |-> 0, returned |-> FALSE, last |-> 0]

\* time.sleep(secs) called at now: the earliest time it returns
sleep(now, secs) == now + secs

InitNet ==
    /\ Idle
    /\ lookup = NoLookup
    /\ \E n \in 1..MaxSearches :
        net = [pc |-> "threads", now |-> 0, searches |-> n,
               th |-> [j \in Jobs |-> NoThread]]

\* POST /api/geocode_start for job j: no run of this job is active, the
\* thread is started; the runs of other jobs are not looked at
JobStart(j) ==
    /\ net.pc = "threads"
    /\ net.th[j].pc = "none"
    /\ net' = [net EXCEPT !.th[j].pc = "ready", !.th[j].left = net.searches]
    /\ UNCHANGED <<job_vars, state_file, model_vars, geo_vars, save_vars, legacy_vars,
                   run_vars, lookup>>

\* nominatim_search: session.get(url, ..., timeout=25) is sent
SearchSend(j) ==
    /\ net.pc = "threads"
    /\ net.th[j].pc = "ready"
    /\ net.th[j].left > 0
    /\ net' = [net EXCEPT !.th[j].pc = "in_flight"]
    /\ UNCHANGED <<job_vars, state_file, model_vars, geo_vars, save_vars, legacy_vars,
                   run_vars, lookup>>

\* session.get returns or raises (answer, error or timeout); the thread
\* goes into time.sleep(GEOCODING_SLEEP_SECONDS)
SearchReturn(j) ==
    /\ net.pc = "threads"
    /\ net.th[j].pc = "in_flight"
    /\ net' = [net EXCEPT !.th[j].pc = "sleeping",
                          !.th[j].left = @ - 1,
                          !.th[j].returned = TRUE,
                          !.th[j].last = net.now,
                          !.th[j].wake = sleep(net.now, GEOCODING_SLEEP_SECONDS)]
    /\ UNCHANGED <<job_vars, state_file, model_vars, geo_vars, save_vars, legacy_vars,
                   run_vars, lookup>>

\* time.sleep returns; the run ends after its last search
SleepEnd(j) ==
    /\ net.pc = "threads"
    /\ net.th[j].pc = "sleeping"
    /\ net.now >= net.th[j].wake
    /\ net' = [net EXCEPT !.th[j].pc = IF net.th[j].left = 0 THEN "ended" ELSE "ready"]
    /\ UNCHANGED <<job_vars, state_file, model_vars, geo_vars, save_vars, legacy_vars,
                   run_vars, lookup>>

\* a second passes
Tick ==
    /\ net.pc = "threads"
    /\ net.now < MaxTime
    /\ net' = [net EXCEPT !.now = @ + 1]
    /\ UNCHANGED <<job_vars, state_file, model_vars, geo_vars, save_vars, legacy_vars,
                   run_vars, lookup>>

NextNet ==
    \/ Tick
    \/ \E j \in Jobs :
        \/ JobStart(j)
        \/ SearchSend(j)
        \/ SearchReturn(j)
        \/ SleepEnd(j)

SpecNet == InitNet /\ [][NextNet]_vars

---------------------------------------------------------------------------
(* The Override State file under the threaded server: a save in two steps *)
(* and a load served by another thread                                    *)

\* api_exclusions up to open(path, "w") in _save_user_state: the file is
\* truncated, the new content not yet written
SaveOpen ==
    /\ saver.pc = "idle"
    /\ \E loaded \in {_load_user_state(state_file)} :
        /\ loaded.raised = ""
        /\ \E data \in Requests :
            \E file \in {_save_user_state(mutate(loaded.st, data))} :
                /\ Records(file) <= MaxRecs
                /\ saver' = [pc |-> "writing", old |-> state_file, new |-> file]
    /\ state_file' = OtherFile("garbage")
    /\ UNCHANGED <<job_vars, model_vars, geo_vars, reader, legacy_vars, run_vars,
                   lookup_vars>>

\* json.dump has written everything, the file is closed, and api_exclusions
\* goes on to _rebuild_filtered_csv
SaveClose ==
    /\ saver.pc = "writing"
    /\ state_file' = saver.new
    /\ saver' = NoSave
    /\ \E enum \in Enumerations :
        \E r \in {Rebuilt(base_csv, excl_csv, saver.new, enum)} :
            /\ final_included' = r.final_included
            /\ final_excluded' = r.final_excluded
            /\ filtered_csv' = r.filtered_csv
    /\ UNCHANGED <<job_vars, geo_vars, reader, legacy_vars, run_vars, lookup_vars>>

\* GET /api/toponyms served by another thread, at any time: the load of
\* _compute_model and, unless it raised, the model
ReadState ==
    /\ \E loaded \in {_load_user_state(state_file)} :
        /\ reader' = [called |-> TRUE, raised |-> loaded.raised, st |-> loaded.st]
        /\ IF loaded.raised = ""
           THEN \E enum \in Enumerations :
                    \E m \in {_compute_model(base_csv, excl_csv, state_file, enum)} :
                        /\ final_included' = m.final_included
                        /\ final_excluded' = m.final_excluded
           ELSE UNCHANGED <<final_included, final_excluded>>
    /\ UNCHANGED <<job_vars, state_file, filtered_csv, geo_vars, saver, legacy_vars, run_vars,
                   lookup_vars>>

NextSave == SaveOpen \/ SaveClose \/ ReadState

SpecSave == InitOne /\ [][NextSave]_vars

\* the states a file holds when _save_user_state wrote it
SavedStates ==
    {st \in [exclude_global : SeqsUpTo(Keys, 1),
             exclude_pages : SeqsUpTo([norm : Keys, page : Pages], 1),
             include_pages : SeqsUpTo([norm : Keys, page : Pages, raw : {Ci}], 1)] :
        Len(st.exclude_global) + Len(st.exclude_pages) + Len(st.include_pages) <= MaxRecs}

\* what may lie at annale_user_state.json when a job directory is opened:
\* no file, text that is not JSON, a JSON array, JSON null, or an object
\* with some of the three fields (with none of them: an object of another
\* or older layout)
PersistedFiles ==
    {OtherFile(shape) : shape \in {"missing", "garbage", "list", "null"}}
        \cup {DictFile(keys, st) : keys \in SUBSET StateFields, st \in SavedStates}

InitLoad ==
    /\ base_csv = OneBase
    /\ excl_csv = OneExcl
    /\ state_file \in PersistedFiles
    /\ \E r \in {Rebuilt(base_csv, excl_csv, _save_user_state(EmptyState),
                          [i \in 1..MaxPage |-> i])} :
            /\ final_included = r.final_included
            /\ final_excluded = r.final_excluded
            /\ filtered_csv = r.filtered_csv
    /\ Quiet
    /\ NoLookups

SpecLoad == InitLoad /\ [][ReadState]_vars

---------------------------------------------------------------------------
(* The processor package used on the job directory: save_user_exclusions   *)

\* load_user_exclusions_full: the three sets
load_user_exclusions_full(file) ==
    LET raw == _load_raw_exclusions(file)
        pairs(rows) == {<<_norm(row.name_norm), row.page>> :
                            row \in {x \in Range(rows) : _norm(x.name_norm) # <<>> /\ x.page # 0}}
    IN  [global_excl |-> {_norm(x) : x \in Range(raw.excluded_toponyms)},
         page_pairs_excl |-> pairs(raw.excluded_attestations),
         forced_include_pairs |-> pairs(raw.forced_include_attestations)]

\* _collect_prefilter_forced_inclusions: for a page, the "pre_filter" terms
\* of annale_toponimi_esclusi.csv the curator forced in, in file order
forced_prefilter_map(excl, forced_include_pairs, pagina) ==
    LET rows == SelectSeq(excl, LAMBDA row :
                    /\ row.stadio = "pre_filter"
                    /\ strip(row.termine) # <<>>
                    /\ row.pagina = pagina
                    /\ <<_norm(strip(row.termine)), row.pagina>> \in forced_include_pairs)
    IN  [i \in DOMAIN rows |-> strip(rows[i].termine)]

\* the orders in which Python may enumerate the set S
OrdersOf(S) ==
    {o \in [1..Cardinality(S) -> S] : \A i, j \in DOMAIN o : o[i] = o[j] => i = j}

\* step 3 of apply_exclusions_to_csv on the terms of one row, enumerated in
\* the order terms
RECURSIVE final_terms(_, _, _, _)
final_terms(terms, seen_norms, pagina, prefs) ==
    IF terms = <<>> THEN <<>>
    ELSE LET t == Head(terms)
             nm == _norm(t)
             forced == <<nm, pagina>> \in prefs.forced_include_pairs
             dropped ==
                \/ nm \in seen_norms
                \/ nm \in prefs.global_excl /\ ~forced
                \/ <<nm, pagina>> \in prefs.page_pairs_excl /\ ~forced
         IN  (IF dropped THEN <<>> ELSE <<t>>)
                 \o final_terms(Tail(terms), seen_norms \cup {nm}, pagina, prefs)

\* the files apply_exclusions_to_csv can write: one row for every row of
\* annale_toponimi.csv
RECURSIVE filtered_rows(_, _, _)
filtered_rows(base_rows, excl, prefs) ==
    IF base_rows = <<>> THEN {<<>>}
    ELSE LET row == Head(base_rows)
             working_terms ==
                Range(_split_semicolon(strip(row.luogo)))
                    \cup Range(forced_prefilter_map(excl, prefs.forced_include_pairs,
                                                    row.pagina))
         IN  {<<[pagina |-> row.pagina,
                 luogo |-> join(final_terms(order, {}, row.pagina, prefs))]>> \o rest :
                    order \in OrdersOf(working_terms),
                    rest \in filtered_rows(Tail(base_rows), excl, prefs)}

apply_exclusions_to_csv(base, excl, file) ==
    filtered_rows(base, excl, load_user_exclusions_full(file))

StorePairs == [name_norm : TermStrings, page : Pages]

OptionalPairs == {None} \cup {Given(rows) : rows \in SeqsUpTo(StorePairs, 1)}

\* save_user_exclusions(out_dir, names, excl, incl)
SaveUserExclusions ==
    /\ \E names \in SeqsUpTo(TermStrings, MaxNames) :
        \E excl \in OptionalPairs, incl \in OptionalPairs :
            exclusions_file' = save_user_exclusions(exclusions_file, names, excl, incl)
    /\ UNCHANGED <<job_vars, state_file, model_vars, geo_vars, save_vars, run_vars,
                   lookup_vars>>

\* apply_exclusions_to_csv(out_dir) rewrites annale_toponimi_filtered.csv
ApplyExclusionsToCsv ==
    /\ filtered_csv' \in apply_exclusions_to_csv(base_csv, excl_csv, exclusions_file)
    /\ UNCHANGED <<job_vars, state_file, final_included, final_excluded, geo_vars,
                   save_vars, legacy_vars, run_vars, lookup_vars>>

NextLegacy == SaveUserExclusions \/ ApplyExclusionsToCsv

SpecLegacy == InitOne /\ [][NextLegacy]_vars

---------------------------------------------------------------------------
(* The inputs and the result of the resolver, as the specification names  *)
(* them                                                                    *)

excludeGlobal == Range(state_file.exclude_global)
excludePages == {<<r.norm, r.page>> : r \in Range(state_file.exclude_pages)}
includePages == {<<r.norm, r.page>> : r \in Range(state_file.include_pages)}

\* pages on which k is in the Raw Extraction Set
RawPages(k) == {r.pagina : r \in {x \in Range(base_csv) : _norm(x.luogo) = k}}

\* pages on which k is in the Auto-Rejected Set at stage pre_filter
PreFilterPages(k) ==
    {r.pagina : r \in {x \in Range(excl_csv) :
                        x.stadio = "pre_filter" /\ _norm(x.termine) = k}}

ForcedPages(k) == {p \in Pages : <<k, p>> \in includePages}

PagesOf(model, k) == IF k \in DOMAIN model THEN Range(model[k].pages) ELSE {}

IncludedPages(k) == PagesOf(final_included, k)
ExcludedPages(k) == PagesOf(final_excluded, k)

\* pagesIncluded and pagesExcluded of the specification
pagesIncluded(k) ==
    IF k \in excludeGlobal
    THEN ForcedPages(k)
    ELSE (RawPages(k) \cup ForcedPages(k))
            \ {p \in Pages : <<k, p>> \in excludePages /\ <<k, p>> \notin includePages}

pagesExcluded(k) ==
    (RawPages(k) \ pagesIncluded(k))
        \cup ((PreFilterPages(k) \ ForcedPages(k)) \ pagesIncluded(k))

---------------------------------------------------------------------------
(* Properties of the Resolved Model *)

\* C1: for every key k of excludeGlobal, finalIncluded[k].pages is exactly
\* the set of pages p with (k,p) in includePages, k has no finalIncluded
\* entry when that set is empty, and no forced page is in
\* finalExcluded[k].pages, whatever the raw set and excludePages hold.
C1_GlobalExclusionKeepsForcedPages ==
    \A k \in excludeGlobal :
        /\ IncludedPages(k) = ForcedPages(k)
        /\ (k \in DOMAIN final_included) <=> (ForcedPages(k) # {})
        /\ ForcedPages(k) \cap ExcludedPages(k) = {}

\* a globally excluded term, raw on two pages and force-included on one of
\* them
C1_Witness ==
    \E k \in excludeGlobal : \E p, q \in RawPages(k) :
        /\ p # q
        /\ <<k, p>> \in includePages
        /\ IncludedPages(k) = {p}
        /\ q \in ExcludedPages(k)

WithInclude(file, k, p) ==
    [file EXCEPT !.include_pages = Append(@, [norm |-> k, page |-> p, raw |-> <<>>])]

\* C3: adding (k,p) to includePages, all else equal, can only enlarge
\* finalIncluded[k].pages and shrink finalExcluded[k].pages, changes the
\* status of no page of k but p, and leaves the page sets of every other
\* term as they were.
C3_ForcedInclusionMonotone ==
    \A k \in Keys, p \in Pages, enum \in Enumerations :
        \A m \in {_compute_model(base_csv, excl_csv, WithInclude(state_file, k, p), enum)} :
            /\ IncludedPages(k) \subseteq PagesOf(m.final_included, k)
            /\ PagesOf(m.final_excluded, k) \subseteq ExcludedPages(k)
            /\ \A q \in Pages \ {p} :
                /\ q \in IncludedPages(k) <=> q \in PagesOf(m.final_included, k)
                /\ q \in ExcludedPages(k) <=> q \in PagesOf(m.final_excluded, k)
            /\ \A j \in Keys \ {k} :
                /\ PagesOf(m.final_included, j) = IncludedPages(j)
                /\ PagesOf(m.final_excluded, j) = ExcludedPages(j)

\* a globally excluded term with two excluded pages: forcing one of them
\* moves that page to the included side and leaves the other excluded
C3_Witness ==
    \E k \in excludeGlobal, p \in Pages :
        \E m \in {_compute_model(base_csv, excl_csv, WithInclude(state_file, k, p),
                                  [i \in 1..MaxPage |-> i])} :
            /\ p \in ExcludedPages(k)
            /\ ExcludedPages(k) \ {p} # {}
            /\ p \in PagesOf(m.final_included, k)
            /\ PagesOf(m.final_excluded, k) = ExcludedPages(k) \ {p}

\* C4: k is in finalExcluded iff k is in excludeGlobal or pagesExcluded(k)
\* is not empty, with isGlobal = (k in excludeGlobal) and pages =
\* pagesExcluded(k); k is in finalIncluded iff pagesIncluded(k) is not
\* empty, with pages = pagesIncluded(k).  A term raw on the two pages 1 and
\* 2 (52 and 53 in the specification), globally excluded and force-included
\* on 2, has finalIncluded pages [2] and finalExcluded {isGlobal, pages [1]}.
C4_EmitRules ==
    \A k \in Keys :
        /\ (k \in DOMAIN final_excluded) <=> (k \in excludeGlobal \/ pagesExcluded(k) # {})
        /\ k \in DOMAIN final_excluded =>
                /\ final_excluded[k].is_global = (k \in excludeGlobal)
                /\ Range(final_excluded[k].pages) = pagesExcluded(k)
        /\ (k \in DOMAIN final_included) <=> (pagesIncluded(k) # {})
        /\ k \in DOMAIN final_included =>
                Range(final_included[k].pages) = pagesIncluded(k)
        /\ (RawPages(k) = {1, 2} /\ k \in excludeGlobal /\ ForcedPages(k) = {2}) =>
                /\ k \in DOMAIN final_included /\ final_included[k].pages = <<2>>
                /\ k \in DOMAIN final_excluded
                /\ final_excluded[k].is_global
                /\ final_excluded[k].pages = <<1>>

\* the scenario of the specification
C4_Witness ==
    \E k \in Keys :
        /\ RawPages(k) = {1, 2} /\ k \in excludeGlobal /\ ForcedPages(k) = {2}
        /\ final_included[k].pages = <<2>>
        /\ final_excluded[k] = [display |-> final_included[k].display,
                                is_global |-> TRUE, pages |-> <<1>>]

\* C5 as stated: an auto-rejected (pre_filter) occurrence (k,p) is in
\* finalIncluded and not in finalExcluded when (k,p) is in includePages, and
\* in finalExcluded and not in finalIncluded when it is not.
C5_AsStated ==
    \A k \in Keys : \A p \in PreFilterPages(k) :
        IF <<k, p>> \in includePages
        THEN p \in IncludedPages(k) /\ p \notin ExcludedPages(k)
        ELSE p \in ExcludedPages(k) /\ p \notin IncludedPages(k)

\* k is still active on page p by its raw occurrence
RawActive(k, p) ==
    /\ p \in RawPages(k)
    /\ k \notin excludeGlobal
    /\ <<k, p>> \notin excludePages

\* C5: an auto-rejected (pre_filter) occurrence (k,p), raw or not, is in
\* finalIncluded and not in finalExcluded when (k,p) is in includePages;
\* without the record it is in finalExcluded and not in finalIncluded,
\* unless k is also raw on page p and excluded neither globally nor on p,
\* in which case p is in finalIncluded and not in finalExcluded.
C5_ReinstateAutoRejected ==
    \A k \in Keys : \A p \in PreFilterPages(k) :
        IF <<k, p>> \in includePages \/ RawActive(k, p)
        THEN p \in IncludedPages(k) /\ p \notin ExcludedPages(k)
        ELSE p \in ExcludedPages(k) /\ p \notin IncludedPages(k)

\* an auto-rejected term that is nowhere in the raw set, force-included on
\* its page
C5_Witness ==
    \E k \in Keys : \E p \in PreFilterPages(k) :
        /\ RawPages(k) = {}
        /\ <<k, p>> \in includePages
        /\ p \in IncludedPages(k)
        /\ k \notin DOMAIN final_excluded

\* The same job, with some rows of the auto-rejected artifact carrying a
\* stage label other than pre_filter
InitStage ==
    InitJob(SeqsUpTo(BaseRows, MaxRaw),
            SeqsUpTo(AutoRows({"pre_filter", "post_filter"}), MaxAuto))

SpecStage == InitStage /\ [][Next]_vars

\* C6: a row of the auto-rejected artifact whose stage is not pre_filter
\* contributes no page to finalExcluded, and a forced inclusion takes effect
\* only for an occurrence of the raw set or of the pre_filter auto-rejected
\* set.
C6_OnlyPreFilterRows ==
    \A k \in Keys :
        /\ ExcludedPages(k) \subseteq RawPages(k) \cup PreFilterPages(k)
        /\ IncludedPages(k) \subseteq RawPages(k) \cup PreFilterPages(k)

\* C7: any step that leaves the Raw Extraction Set, the Auto-Rejected Set
\* and the Override State as they were (an evaluation of the model, under
\* any enumeration order) leaves finalIncluded and finalExcluded as the
\* previous evaluation gave them, and an evaluation changes none of the
\* three inputs.
C7_Deterministic ==
    [][/\ ApiToponyms => UNCHANGED <<base_csv, excl_csv, state_file>>
       /\ UNCHANGED <<base_csv, excl_csv, state_file>>
            => UNCHANGED <<final_included, final_excluded>>]_vars

\* a model with a two-page list on each side, evaluated after the Override
\* State has changed
C7_Witness ==
    /\ \E k \in DOMAIN final_included : Len(final_included[k].pages) = 2
    /\ \E k \in DOMAIN final_excluded : Len(final_excluded[k].pages) = 2
    /\ state_file # _save_user_state(EmptyState)

---------------------------------------------------------------------------
(* Properties of the threads and of the persisted file *)

\* the workers of the job that were launched and have not written done or
\* error
ActiveWorkers == {r \in StartRequests : worker[r].pc \in {"launched", "starting", "loop", "written"}}

\* C8: at most one geocoding task of a job is active at any time: a start
\* request made while a launched task has not reached done or error is
\* rejected, so two workers of one job never run together.
C8_SingleActiveWorker == Cardinality(ActiveWorkers) <= 1

\* C9: a load that interleaves with a save returns the complete previous
\* content or the complete new content of the Override State.
C9_AtomicSave ==
    [][(ReadState /\ saver.pc = "writing")
        => /\ reader'.raised = ""
           /\ reader'.st \in {_load_user_state(saver.old).st,
                               _load_user_state(saver.new).st}]_vars

\* C10: whatever lies at the path of the persisted file, the load raises
\* nothing and returns three collections.
C10_LoadNeverFails ==
    reader.called =>
        /\ reader.raised = ""
        /\ DOMAIN reader.st = StateFields
        /\ \A f \in StateFields : DOMAIN reader.st[f] = 1..Len(reader.st[f])

---------------------------------------------------------------------------
(* Saves of the Override State *)

NormalizedKeys(names) == \A i \in DOMAIN names : names[i] = _norm(names[i])

OnePerKey(names) ==
    \A i, j \in DOMAIN names : _norm(names[i]) = _norm(names[j]) => i = j

\* what C11 asks of annale_user_state.json, the file _save_user_state writes
ServerSaveNormalizes ==
    state_file.shape = "dict" =>
        /\ NormalizedKeys(state_file.exclude_global)
        /\ OnePerKey(state_file.exclude_global)
        /\ \A f \in {"exclude_pages", "include_pages"} :
            /\ NormalizedKeys([i \in DOMAIN state_file[f] |-> state_file[f][i].norm])
            /\ \A i, j \in DOMAIN state_file[f] :
                    (/\ state_file[f][i].norm = state_file[f][j].norm
                     /\ state_file[f][i].page = state_file[f][j].page) => i = j
        /\ _save_user_state(_load_user_state(state_file).st) = state_file

\* C11: after any save of the Override State (by _save_user_state or by
\* save_user_exclusions) the persisted lists hold only normalized term keys,
\* the list of globally excluded terms has no two entries of the same key,
\* the lists of page records have one record per (key, page), and saving what
\* a load returns writes the same content again.
C11_SaveNormalizes ==
    /\ ServerSaveNormalizes
    /\ exclusions_file.exists =>
        /\ NormalizedKeys(exclusions_file.data.excluded_toponyms)
        /\ OnePerKey(exclusions_file.data.excluded_toponyms)
        /\ \A f \in {"excluded_attestations", "forced_include_attestations"} :
            /\ NormalizedKeys([i \in DOMAIN exclusions_file.data[f] |->
                                  exclusions_file.data[f][i].name_norm])
            /\ \A i, j \in DOMAIN exclusions_file.data[f] :
                    exclusions_file.data[f][i] = exclusions_file.data[f][j] => i = j
        /\ \E raw \in {_load_raw_exclusions(exclusions_file)} :
                save_user_exclusions(exclusions_file, raw.excluded_toponyms,
                                     Given(raw.excluded_attestations),
                                     Given(raw.forced_include_attestations))
                    = exclusions_file

---------------------------------------------------------------------------
(* Re-inclusion of a whole term *)

\* the file /api/exclusions leaves when the request is the one action
\* "include term t globally"
AfterIncludeGlobally(t) ==
    _save_user_state(mutate(_load_user_state(state_file).st,
                            [NoRequest EXCEPT !.include_toponyms = <<t>>]))

\* the records of a list that belong to other terms than k
OthersOf(recs, k) == SelectSeq(recs, LAMBDA rec : rec.norm # k)

\* C12: immediately after an include-globally action on term k, k is not in
\* excludeGlobal and excludePages has no pair (k, p), while the exclusion and
\* inclusion records of every other term are unchanged.
C12_IncludeGloballyPurges ==
    state_file.shape = "dict" =>
        \A t \in TermStrings :
            \A k \in {_norm(t)} :
                \A file \in {AfterIncludeGlobally(t)} :
                    /\ k \notin Range(file.exclude_global)
                    /\ \A i \in DOMAIN file.exclude_pages : file.exclude_pages[i].norm # k
                    /\ SelectSeq(file.exclude_global, LAMBDA x : x # k)
                           = SelectSeq(state_file.exclude_global, LAMBDA x : x # k)
                    /\ OthersOf(file.exclude_pages, k) = OthersOf(state_file.exclude_pages, k)
                    /\ OthersOf(file.include_pages, k) = OthersOf(state_file.include_pages, k)

\* a term excluded globally and on one page as well, both undone by the
\* action
C12_Witness ==
    /\ state_file.shape = "dict"
    /\ \E t \in TermStrings :
        \E k \in {_norm(t)} :
            /\ k \in Range(state_file.exclude_global)
            /\ \E i \in DOMAIN state_file.exclude_pages : state_file.exclude_pages[i].norm = k
            /\ \A file \in {AfterIncludeGlobally(t)} :
                /\ file.exclude_global = <<>>
                /\ file.exclude_pages = <<>>

---------------------------------------------------------------------------
(* Lifecycle of the Override State *)

\* the active term list is the materialization of the model of the three
\* inputs as they are now
ActiveListCurrent ==
    \E enum \in Enumerations :
        \E m \in {_compute_model(base_csv, excl_csv, state_file, enum)} :
            filtered_csv = _write_filtered_csv(m.final_included)

\* state_file changes as one curator mutation request changes it
MutationStep ==
    \E loaded \in {_load_user_state(state_file)} :
        /\ loaded.raised = ""
        /\ \E data \in Requests \cup BatchRequests :
                state_file' = _save_user_state(mutate(loaded.st, data))

\* C13: the Override State is empty when the job is created, changes only
\* through curator mutation requests, and whenever no request is in progress
\* the persisted state is what the last completed mutation saved and the
\* active term list is the materialization of the Resolved Model of the raw
\* set, the auto-rejected set and the persisted state (after extraction,
\* after every mutation, when a geocoding start is accepted).
C13_StateLifecycle ==
    /\ state_file = _save_user_state(EmptyState)
    /\ [][state_file' # state_file => MutationStep]_vars
    /\ [](saver.pc = "idle" => ActiveListCurrent)

\* a mutation has been saved, it changed the active term list, and a
\* geocoding start has been accepted after it
C13_Witness ==
    /\ saver.pc = "idle"
    /\ state_file # _save_user_state(EmptyState)
    /\ \E r \in StartRequests : start_pc[r] = "accepted" /\ worker[r].pc = "launched"
    /\ \E enum \in Enumerations :
        \E r \in {Rebuilt(base_csv, excl_csv, _save_user_state(EmptyState), enum)} :
            filtered_csv # r.filtered_csv

---------------------------------------------------------------------------
(* The rows of the active term list *)

\* the terms a row of the active term list gives to its reader
TermsOfRow(row) == _split_semicolon(strip(row.luogo))

\* what C14 asks of the file _write_filtered_csv writes, against the model
\* it was written from
ServerRowsMatchModel ==
    \E enum \in Enumerations :
        \E m \in {_compute_model(base_csv, excl_csv, state_file, enum)} :
            /\ {row.pagina : row \in Range(filtered_csv)}
                  = UNION {Range(m.final_included[k].pages) : k \in DOMAIN m.final_included}
            /\ \A i \in DOMAIN filtered_csv :
                /\ Range(TermsOfRow(filtered_csv[i]))
                      = {m.final_included[k].display :
                            k \in {n \in DOMAIN m.final_included :
                                      filtered_csv[i].pagina \in Range(m.final_included[n].pages)}}

\* C14: the active term list has exactly one row for each page that has at
\* least one included term and no row for a page whose terms were all
\* excluded, and a row lists each of its terms once.
C14_RowsOfActiveList ==
    /\ \A i, j \in DOMAIN filtered_csv :
            filtered_csv[i].pagina = filtered_csv[j].pagina => i = j
    /\ \A i \in DOMAIN filtered_csv :
        \E terms \in {TermsOfRow(filtered_csv[i])} :
            /\ terms # <<>>
            /\ \A a, b \in DOMAIN terms : terms[a] = terms[b] => a = b

---------------------------------------------------------------------------
(* Batch geocoding runs *)

\* the workers that processed all their terms
Completed == {r \in StartRequests : worker[r].pc \in {"written", "done"}}

\* the run of w looked up the keys of model, each once, and its features
\* carry the pages of model
ProcessesModel(w, model) ==
    /\ Range(w.calls) = DOMAIN model
    /\ \A i, j \in DOMAIN w.calls : w.calls[i] = w.calls[j] => i = j
    /\ \A i \in DOMAIN w.features :
        \E f \in {w.features[i]} :
            /\ _norm(f.luogo) \in DOMAIN model
            /\ f.pagine = model[_norm(f.luogo)].pages
            /\ f.mentions = Len(model[_norm(f.luogo)].pages)

\* no display of model holds the separator of the luogo cell
SeparatorFree(model) ==
    \A k \in DOMAIN model : \A i \in DOMAIN model[k].display : model[k].display[i] # ";"

\* C15 for the runs whose model has no display with a ";"
RunProcessesSeparatorFreeModel ==
    \A r \in Completed :
        SeparatorFree(worker[r].model) => ProcessesModel(worker[r], worker[r].model)

\* C15: a batch run processes exactly the terms of the Resolved Model in
\* force when it read its term list: the keys handed to geocode_with_cache
\* are the keys of finalIncluded, each once (so no term excluded on all its
\* pages is looked up), and every feature carries finalIncluded[k].pages as
\* its page list and their number as its mention count.
C15_RunProcessesModel ==
    \A r \in Completed : ProcessesModel(worker[r], worker[r].model)

\* the status values a worker wrote to the progress record, in order
StatusesOf(r) == [i \in DOMAIN worker[r].log |-> worker[r].log[i].rec.status]

Terminal == {"done", "error"}

\* C16: the status values one batch run writes to the progress record follow
\* starting -> running -> {done | error}: the first is starting, every later
\* one that is not terminal is running, a terminal one is the last the run
\* writes, and a run that has ended wrote exactly one.
C16_StatusOrder ==
    \A r \in StartRequests :
        \E st \in {StatusesOf(r)} :
            /\ st # <<>> => st[1] = "starting"
            /\ \A i \in DOMAIN st : i > 1 => st[i] \in {"running"} \cup Terminal
            /\ \A i \in DOMAIN st : st[i] \in Terminal => i = Len(st)
            /\ worker[r].pc \in Terminal <=> (st # <<>> /\ st[Len(st)] \in Terminal)
            /\ worker[r].pc \in Terminal => st[Len(st)] = worker[r].pc

\* one run has ended done after two terms and another has ended error
C16_Witness ==
    \E r, q \in StartRequests :
        /\ worker[r].pc = "done"
        /\ StatusesOf(r) = <<"starting", "running", "running", "running", "done">>
        /\ worker[q].pc = "error"
        /\ StatusesOf(q) = <<"starting", "running", "running", "error">>

\* C17: failure of a single term never aborts the batch: whatever the
\* geocoding service answers to the searches of a term, the term becomes a
\* feature or a reject, the loop goes on, and a run that read its term list
\* ends done after all its terms.
C17_TermFailureNeverAborts ==
    \A r \in StartRequests :
        /\ worker[r].pc \in {"loop", "written", "done"} =>
            /\ Len(worker[r].calls) = worker[r].i
            /\ Len(worker[r].features) + Len(worker[r].rejects) = worker[r].i
        /\ worker[r].pc \in {"written", "done"} => worker[r].i = Len(worker[r].terms)
        /\ worker[r].pc = "error" => worker[r].calls = <<>>

\* C18: when neither the active term list nor the raw extraction artifact
\* can be read at the start of a run, the run aborts before its loop: it
\* hands no term to the cache, sends no request to the geocoding service,
\* writes no output, and its terminal status is error, never done.
C18_UnreadableInputAborts ==
    \A r \in StartRequests :
        (csv_files = {} /\ worker[r].pc \notin {"none", "launched", "starting"}) =>
            /\ worker[r].pc = "error"
            /\ StatusesOf(r) = <<"starting", "error">>
            /\ worker[r].calls = <<>>
            /\ worker[r].searches = 0
            /\ outputs = NoOutputs

\* a run on a directory with neither file has ended
C18_Witness ==
    /\ csv_files = {}
    /\ \E r \in StartRequests :
        /\ worker[r].pc = "error"
        /\ progress.status = "error"

\* the calls of progress_cb a worker made, in order
Notifications(r) == SelectSeq(worker[r].log, LAMBDA e : e.rec.status = "running")

\* C19 as stated: the notification that names a term is emitted after that
\* term has been processed, with done the number of terms processed so far
\* and total N; one final notification with done = total = N and no current
\* term follows the last term.
C19_NotifiedAfterEachTerm ==
    \A r \in StartRequests :
        \E notes \in {Notifications(r)} :
            \A n \in DOMAIN notes :
                \/ /\ notes[n].rec.current # <<>>
                   /\ \E j \in 1..notes[n].processed :
                        worker[r].terms[j].raw = notes[n].rec.current
                   /\ notes[n].rec.done = notes[n].processed
                   /\ notes[n].rec.total = Len(worker[r].terms)
                \/ /\ notes[n].rec.current = <<>>
                   /\ n = Len(notes)
                   /\ notes[n].rec.done = Len(worker[r].terms)
                   /\ notes[n].rec.total = Len(worker[r].terms)

\* C19, amended: the notification of a term is emitted before the term is
\* processed, with done the number of terms processed before it (0 for the
\* first, N - 1 for the last), total N and current the term about to be
\* processed; after the last term exactly one final notification follows,
\* with done = total = N and no current term.
C19_NotifiedBeforeEachTerm ==
    \A r \in StartRequests :
        \E notes \in {Notifications(r)} :
        \E N \in {Len(worker[r].terms)} :
            /\ Len(notes) <= N + 1
            /\ \A n \in DOMAIN notes :
                IF n <= N
                THEN /\ notes[n].rec.done = n - 1
                     /\ notes[n].rec.total = N
                     /\ notes[n].rec.current = worker[r].terms[n].raw
                     /\ notes[n].processed = n - 1
                ELSE /\ notes[n].rec.done = N
                     /\ notes[n].rec.total = N
                     /\ notes[n].rec.current = <<>>
                     /\ notes[n].processed = N
            /\ worker[r].pc = "loop" => Len(notes) = worker[r].i
            /\ worker[r].pc \in {"written", "done"} => Len(notes) = N + 1

\* a run over two terms has ended: three notifications, the last without a
\* current term
C19_Witness ==
    \E r \in StartRequests :
        /\ worker[r].pc = "done"
        /\ Len(worker[r].terms) = 2
        /\ Len(Notifications(r)) = 3
        /\ Notifications(r)[1].rec.done = 0
        /\ Notifications(r)[3].rec.current = <<>>

\* the raw forms of the terms of worker r whose lookup returned a candidate
\* (wanted = TRUE) or a rejection (wanted = FALSE), in processing order
TermsWithResult(r, wanted) ==
    LET ns == SelectSeq([n \in DOMAIN worker[r].results |-> n],
                        LAMBDA n : worker[r].results[n] = wanted)
    IN  [j \in DOMAIN ns |-> worker[r].terms[ns[j]].raw]

RawOf(rows) == [j \in DOMAIN rows |-> rows[j].luogo]

\* what C20 asks, of the lists features and rejects_rows the run holds in
\* memory when it has processed all its terms
FeatureOrRejectInMemory ==
    \A r \in Completed :
        /\ RawOf(worker[r].features) = TermsWithResult(r, TRUE)
        /\ RawOf(worker[r].rejects) = TermsWithResult(r, FALSE)

\* C20: every term of a completed run ends in exactly one of two outcomes:
\* a feature in the geocoded output if and only if its lookup returned a
\* candidate, a record in the reject list if and only if it returned a
\* rejection; so features plus reject records number the distinct terms,
\* and both appear in the order the terms were processed.
C20_FeatureOrReject ==
    \A r \in Completed :
        outputs.geojson.by = r =>
            /\ RawOf(outputs.geojson.rows) = TermsWithResult(r, TRUE)
            /\ RawOf(outputs.rejects.rows) = TermsWithResult(r, FALSE)
            /\ Len(outputs.geojson.rows) + Len(outputs.rejects.rows) = Len(worker[r].terms)

\* the tier the categories of the ranking give to a result: populated place
\* or administrative boundary of national or regional level, administrative
\* boundary of provincial or municipal level, province or region as a place,
\* point of interest of the whitelist, any other result with coordinates,
\* anything else
TierAsStated(hit) ==
    LET cls == lower_token(hit.class)
        typ == lower_token(hit.type)
        al == _admin_level(hit)
        administrative == cls = "boundary" /\ typ \in ACCEPT_BOUNDARY_TYPES
    IN  IF cls = "place" /\ typ \in PRIMARY_PLACE_TYPES THEN 0
        ELSE IF administrative /\ 0 < al /\ al <= 4 THEN 0
        ELSE IF administrative /\ 5 <= al /\ al <= 6 THEN 1
        ELSE IF cls = "place" /\ typ \in SECONDARY_PLACE_TYPES THEN 2
        ELSE IF <<cls, typ>> \in POI_TYPES THEN 3
        ELSE IF hit.lat /\ hit.lon THEN 8
        ELSE 9

\* the results that fall into one of the categories of the ranking: all but
\* the administrative boundaries of a level outside 1..6
InCategories(hit) ==
    ~(/\ lower_token(hit.class) = "boundary"
      /\ lower_token(hit.type) \in ACCEPT_BOUNDARY_TYPES
      /\ _admin_level(hit) \notin 1..6)

\* On the results of the categories _rank_tier gives the tier of the category
TierOfCategories ==
    (lookup.pc = "ranked" /\ InCategories(lookup.hit)) =>
        lookup.tier = TierAsStated(lookup.hit)

\* C28: for every combination of class, type, admin level and presence of
\* coordinates the tier of a result is 0 for a populated place or a national
\* or regional administrative boundary, 1 for a provincial or municipal
\* administrative boundary, 2 for a province or region as a place, 3 for a
\* point of interest of the whitelist, 8 for any other result with
\* coordinates and 9 otherwise.
C28_TierOfResult ==
    lookup.pc = "ranked" => lookup.tier = TierAsStated(lookup.hit)

\* the labels of the searches of a name, in the stated order: home country,
\* country suffix, global, and the exonym for a name of the exonym table
ExpectedLabels(name) ==
    IF _norm(name) \in DOMAIN EXONYMS_IT
    THEN <<"it", "it_suffix", "global", "exonym">>
    ELSE <<"it", "it_suffix", "global">>

\* the searches answered by a list whose first element is null
NullFirst(answers) ==
    {v \in DOMAIN answers :
        /\ answers[v].outcome = "list"
        /\ answers[v].body # <<>>
        /\ answers[v].body[1].kind = "null"}

\* the searches that failed: network exception or status other than 200
Failed(answers) == {v \in DOMAIN answers : answers[v].outcome \in {"network", "status"}}

\* C23: the resolver sends its searches in the order home country, country
\* suffix, global, and then the exonym search exactly when the normalized
\* name is in the exonym table; a search that fails with a network exception
\* or a status other than 200 adds no result, the searches after it are
\* still sent, and the resolver does not raise because of it.
C23_VariantsInOrder ==
    lookup.pc = "resolved" =>
        LET out == lookup.out
            answers == lookup.answers
            expected == ExpectedLabels(lookup.name)
            sent == IF NullFirst(answers) = {} THEN Len(expected)
                    ELSE CHOOSE v \in NullFirst(answers) : \A w \in NullFirst(answers) : v <= w
        IN  /\ Len(out.issued) = sent
            /\ \A v \in DOMAIN out.issued :
                /\ out.issued[v].label = expected[v]
                /\ out.issued[v].cc = (IF v <= 2 THEN "it" ELSE "")
                /\ out.issued[v].q =
                    (CASE v = 2 -> lookup.name \o <<",", " ", "I", "t", "a", "l", "i", "a">>
                       [] v = 4 -> EXONYMS_IT[_norm(lookup.name)]
                       [] OTHER -> lookup.name)
            /\ out.raised <=> NullFirst(answers) # {}
            /\ \A h \in Range(out.all_hits) :
                \E v \in DOMAIN answers \ Failed(answers) : h \in Range(answers[v].body)

\* a name of the exonym table whose first two searches failed: all four
\* searches were sent and the last one gave the candidate
C23_Witness ==
    /\ lookup.pc = "resolved"
    /\ lookup.name = Parigi
    /\ lookup.answers[1].outcome = "network"
    /\ lookup.answers[2].outcome = "status"
    /\ Len(lookup.out.issued) = 4
    /\ lookup.out.issued[4].label = "exonym"
    /\ lookup.out.ok

\* the identifier of a result in the geocoding service
SourceId(h) == <<h.osm_type, h.osm_id>>

\* the results of the searches answered by a list, search by search
Returned(answers, v) ==
    IF answers[v].outcome = "list"
    THEN SelectSeq(answers[v].body, LAMBDA h : h.kind = "dict")
    ELSE <<>>

\* the first result with identifier id among those of the earliest search
\* that returned one
EarliestOf(answers, id) ==
    LET with == {v \in DOMAIN answers : \E h \in Range(Returned(answers, v)) : SourceId(h) = id}
        v == CHOOSE v \in with : \A w \in with : v <= w
    IN  Head(SelectSeq(Returned(answers, v), LAMBDA h : SourceId(h) = id))

\* C24: in the list that is ranked every source identifier (osm_type,
\* osm_id) occurs at most once, the result kept for it is the one of the
\* earliest search that returned it, and every result of a successful search
\* has its identifier in the list.
C24_DeduplicatedById ==
    (lookup.pc = "resolved" /\ ~lookup.out.raised) =>
        LET hits == lookup.out.all_hits
            answers == lookup.answers
        IN  /\ \A i, j \in DOMAIN hits : SourceId(hits[i]) = SourceId(hits[j]) => i = j
            /\ \A i \in DOMAIN hits : hits[i] = EarliestOf(answers, SourceId(hits[i]))
            /\ \A v \in DOMAIN answers : \A h \in Range(Returned(answers, v)) :
                \E i \in DOMAIN hits : SourceId(hits[i]) = SourceId(h)

\* two searches returned the same object with different descriptions, the
\* later one as a populated place: the list holds the earlier description
C24_Witness ==
    /\ lookup.pc = "resolved"
    /\ ~lookup.out.raised
    /\ lookup.answers[1] = Response("list", <<ShadowHit>>)
    /\ lookup.answers[3] = Response("list", <<PlaceHit, TwinHit>>)
    /\ ShadowHit \in Range(lookup.out.all_hits)
    /\ PlaceHit \notin Range(lookup.out.all_hits)
    /\ Len(lookup.out.all_hits) = 2

\* a result ranks strictly before another: lower tier, then stronger name
\* match, then greater importance
RanksBefore(g, h, q_norm) ==
    \/ _rank_tier(g) < _rank_tier(h)
    \/ /\ _rank_tier(g) = _rank_tier(h)
       /\ _name_match_strength(q_norm, g) > _name_match_strength(q_norm, h)
    \/ /\ _rank_tier(g) = _rank_tier(h)
       /\ _name_match_strength(q_norm, g) = _name_match_strength(q_norm, h)
       /\ _safe_float(g.importance) > _safe_float(h.importance)

\* the deduplicated results of a call: one per identifier, that of the
\* earliest search
Deduplicated(answers) ==
    {EarliestOf(answers, SourceId(h)) :
        h \in UNION {Range(Returned(answers, v)) : v \in DOMAIN answers}}

\* C25: the resolver fails with no_results exactly when no search returned a
\* result, fails with no_accepted_candidate exactly when there are results
\* and all are of tier 9, and otherwise returns a result of tier below 9
\* before which no other deduplicated result ranks by (tier, -nameMatch,
\* -importance); a result of tier 9 is never returned.
C25_MinimalKeyCandidate ==
    (lookup.pc = "resolved" /\ ~lookup.out.raised) =>
        LET out == lookup.out
            q_norm == _norm(lookup.name)
            results == Deduplicated(lookup.answers)
            chosen == {h \in results : SourceId(h) = <<out.data.osm_type, out.data.osm_id>>}
        IN  /\ (~out.ok /\ out.reason = "no_results") <=> results = {}
            /\ (~out.ok /\ out.reason = "no_accepted_candidate") <=>
                    (results # {} /\ \A h \in results : _rank_tier(h) = 9)
            /\ out.ok <=> \E h \in results : _rank_tier(h) < 9
            /\ out.ok =>
                /\ out.data.given
                /\ \E h \in chosen :
                    /\ out.data = _normalize_hit_with_geom(h, lookup.name)
                    /\ _rank_tier(h) < 9
                    /\ \A g \in results : ~RanksBefore(g, h, q_norm)

\* the results differ in tier, in name match and in importance: the named
\* place is returned although another place is more important
C25_Witness ==
    /\ lookup.pc = "resolved"
    /\ lookup.name = Ci
    /\ lookup.answers[1] = Response("list", <<PoorHit, PlaceHit>>)
    /\ lookup.answers[3] = Response("list", <<NamedHit>>)
    /\ lookup.out.ok
    /\ lookup.out.data.osm_id = NamedHit.osm_id

Reverse(s) == [i \in DOMAIN s |-> s[Len(s) + 1 - i]]

\* the same answers delivered in another order: the lists change places
\* among the searches and some lists arrive reversed
Redelivered(answers) ==
    {[v \in DOMAIN answers |->
        Response(answers[p[v]].outcome,
                 IF r[v] THEN Reverse(answers[p[v]].body) ELSE answers[p[v]].body)]
        : p \in {q \in [DOMAIN answers -> DOMAIN answers] :
                    \A v, w \in DOMAIN answers : q[v] = q[w] => v = w},
          r \in [DOMAIN answers -> BOOLEAN]}

\* all the results the searches returned
AllReturned(answers) == UNION {Range(Returned(answers, v)) : v \in DOMAIN answers}

\* no two different results share an identifier or rank equal
NoTies(answers, q_norm) ==
    \A g, h \in AllReturned(answers) :
        g # h => /\ SourceId(g) # SourceId(h)
                 /\ RanksBefore(g, h, q_norm) \/ RanksBefore(h, g, q_norm)

\* When no two results share an identifier or rank equal, the candidate does
\* not depend on the order of delivery
StableWithoutTies ==
    (lookup.pc = "resolved" /\ NullFirst(lookup.answers) = {}
        /\ NoTies(lookup.answers, _norm(lookup.name))) =>
        \A again \in Redelivered(lookup.answers) :
            geocode_name_robust(lookup.name, again).data = lookup.out.data

\* C26: for a fixed set of raw results the resolver returns the same
\* candidate whatever the order in which the results are delivered, within a
\* search and across the searches, also when two different results have
\* equal tier, name match and importance.
C26_RankingStable ==
    (lookup.pc = "resolved" /\ NullFirst(lookup.answers) = {}) =>
        \A again \in Redelivered(lookup.answers) :
            geocode_name_robust(lookup.name, again).data = lookup.out.data

\* C27: for a name that has an exonym mapping, when the home-country, the
\* country-suffix and the global search return no result and the exonym
\* search returns a result of tier 0, the resolver succeeds and returns that
\* result, not a rejection.
C27_ExonymFallback ==
    (/\ lookup.pc = "resolved"
     /\ lookup.name \in ExonymNames
     /\ \A v \in 1..3 : lookup.answers[v].body = <<>>
     /\ \E h \in Range(Returned(lookup.answers, 4)) : _rank_tier(h) = 0) =>
        /\ ~lookup.out.raised
        /\ lookup.out.ok
        /\ \E h \in Range(Returned(lookup.answers, 4)) :
            /\ _rank_tier(h) = 0
            /\ lookup.out.data = _normalize_hit_with_geom(h, lookup.name)

\* Parigi: an empty list, a timeout and a body that is not JSON, then the
\* place found under the exonym
C27_Witness ==
    /\ lookup.pc = "resolved"
    /\ lookup.name = Parigi
    /\ _norm(lookup.name) \in DOMAIN EXONYMS_IT
    /\ lookup.answers[1] = Response("list", <<>>)
    /\ lookup.answers[2] = Response("network", <<>>)
    /\ lookup.answers[3] = Response("not_json", <<>>)
    /\ lookup.answers[4] = Response("list", <<PlaceHit>>)
    /\ lookup.out.ok
    /\ lookup.out.data.raw = Parigi
    /\ lookup.out.issued[4].q = <<"p", "a", "r", "i", "s">>

\* an entry that is a success or a stored rejection
StoredOutcome(entry) == entry.shape \in {"outcome", "legacy", "null"}

\* the outcome an entry stands for: the candidate, or the reason of the
\* rejection
OutcomeOf(entry) ==
    IF entry.shape = "legacy" \/ (entry.shape = "outcome" /\ entry.ok)
    THEN [ok |-> entry.data.given, data |-> entry.data, reason |-> ""]
    ELSE [ok |-> FALSE, data |-> NoData,
          reason |-> IF entry.shape = "null" THEN "cached_none"
                     ELSE IF entry.reason = "" THEN "cached_reject" ELSE entry.reason]

\* A call for a key that has a stored outcome returns that outcome, sends no
\* search and leaves the cache in memory and on disk as they were
CacheHitReturnsStored ==
    \A n \in DOMAIN lookup.returned :
        LET res == lookup.returned[n]
            before == IF n = 1 THEN lookup.loaded ELSE lookup.returned[n - 1].cache
            key == _norm(lookup.name)
        IN  (key \in DOMAIN before /\ StoredOutcome(before[key])) =>
                /\ ~res.raised
                /\ [ok |-> res.ok, data |-> res.data, reason |-> res.reason]
                        = OutcomeOf(before[key])
                /\ res.searches = 0
                /\ res.cache = before
                /\ ~res.written

\* Two successive calls that return give the same outcome and call the
\* resolver at most once in total
CacheDeterminism ==
    (Len(lookup.returned) = 2 /\ ~lookup.returned[1].raised) =>
        LET first == lookup.returned[1]
            second == lookup.returned[2]
        IN  /\ ~second.raised
            /\ second.ok = first.ok /\ second.data = first.data
            /\ second.reason = first.reason
            /\ second.searches = 0
            /\ second.cache = first.cache

\* After a miss that returns, the cache in memory and on disk holds the
\* outcome under the normalized key, the resolver was called once
CacheMissStores ==
    (lookup.returned # <<>> /\ ~lookup.returned[1].raised
        /\ ~(_norm(lookup.name) \in DOMAIN lookup.loaded
             /\ StoredOutcome(lookup.loaded[_norm(lookup.name)]))) =>
        LET first == lookup.returned[1]
            entry == first.cache[_norm(lookup.name)]
        IN  /\ first.written
            /\ first.searches = Cardinality(Variants)
            /\ entry.shape = "outcome"
            /\ entry.ok = first.ok /\ entry.data = first.data
            /\ entry.reason = first.reason
            /\ \A k \in DOMAIN lookup.loaded \ {_norm(lookup.name)} :
                first.cache[k] = lookup.loaded[k]

\* a worker thread has just finished the step of one term
StepOf(r) == worker'[r].i = worker[r].i + 1 /\ worker[r].pc = "loop"

\* the key of the term of the step
KeyOfStep(r) == _norm(worker[r].terms[worker[r].i + 1].raw)

\* In a batch run, a term whose key has a stored outcome in the cache of the
\* run is settled by that outcome, without a search and without a write
RunHitReturnsStored ==
    [][\A r \in StartRequests :
        (StepOf(r) /\ KeyOfStep(r) \in DOMAIN worker[r].cache) =>
            /\ worker'[r].searches = worker[r].searches
            /\ worker'[r].cache = worker[r].cache
            /\ geocache' = geocache
            /\ worker'[r].results[Len(worker'[r].results)]
                    = OutcomeOf(worker[r].cache[KeyOfStep(r)]).ok]_vars

\* An entry of the persisted cache is never replaced nor removed
WriteOncePerKey ==
    [][\A k \in DOMAIN geocache : k \in DOMAIN geocache' /\ geocache'[k] = geocache[k]]_vars

\* C21: a cache hit returns the stored outcome without any external call and
\* without modifying the cache, in memory or on disk; two successive calls
\* for one term give the same outcome with at most one call of the resolver;
\* and an entry once written for a key is never replaced within a job.
C21_CacheHitWriteOnce ==
    [][/\ \A r \in StartRequests :
            (StepOf(r) /\ KeyOfStep(r) \in DOMAIN worker[r].cache) =>
                /\ worker'[r].searches = worker[r].searches
                /\ worker'[r].cache = worker[r].cache
                /\ geocache' = geocache
       /\ \A k \in DOMAIN geocache : k \in DOMAIN geocache' /\ geocache'[k] = geocache[k]]_vars

\* the keys of the terms whose step a run has completed
CompletedKeys(r) == {_norm(worker[r].terms[n].raw) : n \in 1..worker[r].i}

\* A term whose step was completed by an earlier run, ended or aborted, is
\* settled without a search
RerunSendsNoSearch ==
    [][\A r, q \in StartRequests :
        (StepOf(r) /\ q # r /\ worker[q].pc \in {"done", "error"}
            /\ KeyOfStep(r) \in CompletedKeys(q)) =>
                worker'[r].searches = worker[r].searches]_vars

\* C22: on a miss geocode_with_cache calls the resolver once, stores the
\* outcome under the normalized key and writes the whole cache to disk
\* before it returns; so at every point of a batch run, and after a run
\* aborted at any point, the persisted cache has an entry for every term
\* whose step has completed.
C22_CompletedTermsPersisted ==
    \A r \in StartRequests : CompletedKeys(r) \subseteq DOMAIN geocache

\* the searches in flight
InFlight == {j \in Jobs : net.th[j].pc = "in_flight"}

\* a search of job j is sent in this step
Sends(j) == net.th[j].pc = "ready" /\ net'.th[j].pc = "in_flight"

\* The searches of one run are sent one after the other, each at least the
\* fixed delay after the previous one returned
OneRunSerialized ==
    [][\A j \in Jobs :
        (Sends(j) /\ net.th[j].returned) =>
            net.now >= net.th[j].last + GEOCODING_SLEEP_SECONDS]_vars

\* C29: external calls are strictly serialized with a fixed delay between
\* them: never are two searches in flight at once, and between the end of
\* any search and the start of the next the fixed delay elapses, for all
\* the searches of the system, also when the batch runs of different jobs
\* are active at the same time.
C29_CallsSerialized ==
    /\ [](net.pc = "threads" => Cardinality(InFlight) <= 1)
    /\ [][\A j, k \in Jobs :
            (Sends(j) /\ net.th[k].returned) =>
                net.now >= net.th[k].last + GEOCODING_SLEEP_SECONDS]_vars

\* C30: every accepted batch start reaches a terminal state: when every
\* external call returns and the worker thread is scheduled fairly, the
\* progress record of the run eventually shows done or error, and the
\* progress file does not stay at starting or running forever.
C30_RunTerminates ==
    /\ \A r \in StartRequests :
        (start_pc[r] = "accepted") ~>
            (/\ worker[r].pc \in {"done", "error"}
             /\ worker[r].log[Len(worker[r].log)].rec.status \in {"done", "error"}
             /\ progress.status \in {"done", "error"})
    /\ []<>(progress.status \notin {"starting", "running"})

\* an accepted start whose run went through the loop and ended with done,
\* and another whose run ended with error
C30_Witness ==
    \E r, q \in StartRequests :
        /\ start_pc[r] = "accepted" /\ worker[r].pc = "done" /\ worker[r].i = 2
        /\ start_pc[q] = "accepted" /\ worker[q].pc = "error"
        /\ progress.status \in {"done", "error"}

\* normalize(normalize(s)) = normalize(s)
NormIdempotent == lookup.pc = "keys" => lookup.again = lookup.key_s

\* server._norm, processor.utils.normalize_name and processor.utils._norm
\* give the same key
NormAgree == lookup.pc = "keys" => lookup.by_name = lookup.key_s /\ lookup.by_utils = lookup.key_s

\* strings that differ in combining marks or in whitespace only have one key
NormMarksSpace == lookup.pc = "keys" /\ lookup.kind \in {"marks", "space"} => lookup.key_t = lookup.key_s

\* strings that differ in the case of letters other than the dotless i have
\* one key
NormCasePlain ==
    lookup.pc = "keys" /\ lookup.kind = "case" /\ "|" \notin Range(lookup.s) \cup Range(lookup.t)
        => lookup.key_t = lookup.key_s

\* C31: normalize is idempotent, strings that differ only in letter case,
\* in combining diacritical marks or in the amount of whitespace have the
\* same key, and server._norm and processor.utils.normalize_name give the
\* same key for every string.
C31_NormalizeAsStated ==
    lookup.pc = "keys" =>
        /\ lookup.again = lookup.key_s
        /\ lookup.key_t = lookup.key_s
        /\ lookup.by_name = lookup.key_s

\* the display candidates that mention key k, in the order in which
\* _compute_model meets them: the occurrences of annale_toponimi.csv, the
\* rows of annale_toponimi_esclusi.csv, the includePages records
CandidatesOf(k) ==
    [i \in DOMAIN base_csv |-> base_csv[i].luogo]
        \o [i \in DOMAIN excl_csv |-> excl_csv[i].termine]
        \o [i \in DOMAIN state_file.include_pages |-> state_file.include_pages[i].raw]

MentionsOf(k) == SelectSeq(CandidatesOf(k), LAMBDA t : t # <<>> /\ normalize(t) = k)

\* the place of the first string of minimal length
FirstShortest(seq) ==
    CHOOSE i \in DOMAIN seq :
        \A j \in DOMAIN seq : Len(seq[j]) > Len(seq[i]) \/ (Len(seq[j]) = Len(seq[i]) /\ i <= j)

DisplayedKeys == DOMAIN final_included \cup DOMAIN final_excluded

\* C32: the working display of a term key is a shortest string among the
\* display candidates that mention the key (raw occurrences, auto-rejected
\* occurrences, includePages records with a raw form), the first one seen
\* among those of minimal length, and finalIncluded and finalExcluded show
\* the same display for the key.
C32_ShortestDisplay ==
    lookup.pc = "rebuilt" =>
        \A k \in DisplayedKeys :
            \A seq \in {MentionsOf(k)} :
                /\ seq # <<>>
                /\ k \in DOMAIN final_included =>
                        final_included[k].display = seq[FirstShortest(seq)]
                /\ k \in DOMAIN final_excluded =>
                        final_excluded[k].display = seq[FirstShortest(seq)]

\* a key in both maps whose longest form is seen first and whose two
\* shortest forms have the same length
C32_Witness ==
    /\ lookup.pc = "rebuilt"
    /\ \E k \in DOMAIN final_included \cap DOMAIN final_excluded :
        \E seq \in {MentionsOf(k)} :
            /\ Len(seq) >= 3
            /\ seq[1] = Badecomposed
            /\ seq[2] = Bagrave
            /\ seq[3] = Ba
            /\ final_included[k].display = Bagrave

\* C33: in every Resolved Model the included and the excluded pages of a
\* term key are disjoint, for any raw set, auto-rejected set and Override
\* State, also one that contradicts itself.
C33_PagesDisjoint ==
    lookup.pc = "rebuilt" =>
        \A k \in DOMAIN final_included \cap DOMAIN final_excluded :
            Range(final_included[k].pages) \cap Range(final_excluded[k].pages) = {}

\* an Override State that excludes a term globally, excludes one of its
\* occurrences and forces the same occurrence in; the term has included and
\* excluded pages
C33_Witness ==
    /\ lookup.pc = "rebuilt"
    /\ \E k \in DOMAIN final_included \cap DOMAIN final_excluded :
        /\ k \in Range(state_file.exclude_global)
        /\ \E e \in Range(state_file.exclude_pages), i \in Range(state_file.include_pages) :
            /\ e.norm = k /\ i.norm = k /\ e.page = i.page
            /\ i.page \in Range(final_included[k].pages)
        /\ final_excluded[k].pages # <<>>

\* the (key, page) pairs of a list of the persisted Override State
PairsOf(recs) == {<<normalize(rec.norm), rec.page>> : rec \in Range(recs)}

\* C34: starting from the empty Override State, after any sequence of
\* curator mutation requests no (key, page) pair is in both excludePages and
\* includePages of the persisted state.
C34_NoPairInBothLists ==
    PairsOf(state_file.exclude_pages) \cap PairsOf(state_file.include_pages) = {}

\* a request that excludes and forces the same occurrence, served on a
\* state that held the occurrence as excluded: the occurrence is now forced
C34_Witness ==
    /\ lookup.pc = "served"
    /\ lookup.data.exclude_attestations # <<>>
    /\ lookup.data.include_attestations = lookup.data.exclude_attestations
    /\ PairsOf(lookup.before.state_file.exclude_pages)
            \cap PairsOf(state_file.include_pages) # {}

\* the records of a list that belong to other terms than k
OthersIn(recs, k) == SelectSeq(recs, LAMBDA rec : normalize(rec.norm) # k)

\* the request served last has exclude-globally on term t as its only action
OnlyExcludesGlobally(t) ==
    /\ lookup.pc = "served"
    /\ lookup.data = [NoRequest EXCEPT !.exclude_toponyms = <<t>>]

\* the keys the request served last excludes globally, the occurrences it
\* forces in
ExcludedByRequest == {normalize(t) : t \in Range(lookup.data.exclude_toponyms)}
ForcedByRequest == {<<normalize(a.term), a.page>> : a \in Range(lookup.data.include_attestations)}

\* C35: immediately after a mutation request whose only action is
\* exclude-globally on term k, includePages holds no pair for k and
\* finalIncluded has no entry for k, and the records of every other term are
\* unchanged; a forced inclusion of (k, p) is found together with a global
\* exclusion of k only if the include-occurrence action was applied after
\* the exclude-globally action, in the same request or in a later one.
C35_GlobalExclusionDiscardsForced ==
    /\ \A t \in CuratorTerms : \A k \in {normalize(t)} :
        OnlyExcludesGlobally(t) =>
            /\ \A pair \in PairsOf(state_file.include_pages) : pair[1] # k
            /\ k \notin DOMAIN final_included
            /\ k \in Range(state_file.exclude_global)
            /\ SelectSeq(state_file.exclude_global, LAMBDA x : x # k)
                    = SelectSeq(lookup.before.state_file.exclude_global, LAMBDA x : x # k)
            /\ OthersIn(state_file.exclude_pages, k)
                    = OthersIn(lookup.before.state_file.exclude_pages, k)
            /\ OthersIn(state_file.include_pages, k)
                    = OthersIn(lookup.before.state_file.include_pages, k)
    /\ lookup.pc = "served" =>
        \A pair \in PairsOf(state_file.include_pages) :
            pair[1] \in Range(state_file.exclude_global) =>
                \/ pair \in ForcedByRequest
                \/ /\ pair[1] \notin ExcludedByRequest
                   /\ pair \in PairsOf(lookup.before.state_file.include_pages)
                   /\ pair[1] \in Range(lookup.before.state_file.exclude_global)

\* a term with a forced occurrence, which was in finalIncluded, has just
\* been excluded globally, and the state holds a record of another term
C35_Witness ==
    \E t \in CuratorTerms : \E k \in {normalize(t)} :
        /\ OnlyExcludesGlobally(t)
        /\ \E pair \in PairsOf(lookup.before.state_file.include_pages) : pair[1] = k
        /\ k \in DOMAIN lookup.before.final_included
        /\ OthersIn(state_file.exclude_pages, k) \o OthersIn(state_file.include_pages, k) # <<>>

\* the three collections of a persisted Override State, as sets
Collections(file) ==
    [exclude_global |-> Range(file.exclude_global),
     exclude_pages |-> Range(file.exclude_pages),
     include_pages |-> Range(file.include_pages)]

\* C36: a curator mutation request is idempotent on the Override State:
\* served twice in a row it leaves the three collections, as sets, as it
\* left them the first time, and with them the Resolved Model and the
\* active term list.
C36_RequestIdempotent ==
    lookup.pc = "served" /\ lookup.again =>
        /\ Collections(state_file) = Collections(lookup.before.state_file)
        /\ final_included = lookup.before.final_included
        /\ final_excluded = lookup.before.final_excluded
        /\ filtered_csv = lookup.before.filtered_csv

\* a request with an entry in each of its four lists has been served twice
\* in a row, and it changed the state the first time
C36_Witness ==
    /\ lookup.pc = "served"
    /\ lookup.again
    /\ lookup.data.exclude_toponyms # <<>>
    /\ lookup.data.exclude_attestations # <<>>
    /\ lookup.data.include_toponyms # <<>>
    /\ lookup.data.include_attestations # <<>>
    /\ state_file # _save_user_state(EmptyState)

\* the progress records worker r has written, in order
RecordsOf(r) == [i \in DOMAIN worker[r].log |-> worker[r].log[i].rec]

\* the position of the first running record among recs, 0 when there is none
FirstRunning(recs) ==
    IF \E i \in DOMAIN recs : recs[i].status = "running"
    THEN CHOOSE i \in DOMAIN recs :
            /\ recs[i].status = "running"
            /\ \A j \in 1..(i - 1) : recs[j].status # "running"
    ELSE 0

\* what the records of one run do satisfy: done never exceeds total, and
\* among the running records done never decreases and total is the number
\* of distinct terms
RunningRecordsMonotone ==
    \A r \in StartRequests :
        \E recs \in {RecordsOf(r)} :
            /\ \A i \in DOMAIN recs : recs[i].done <= recs[i].total
            /\ \A i, j \in DOMAIN recs :
                (i < j /\ recs[i].status = "running" /\ recs[j].status = "running")
                    => /\ recs[i].done <= recs[j].done
                       /\ recs[i].total = Len(worker[r].terms)
                       /\ recs[j].total = Len(worker[r].terms)

\* C37: in the sequence of progress records one batch run writes, done never
\* exceeds total, done never decreases from one record to the next, and total
\* is the number of distinct terms in every record from the first running
\* record up to and including the terminal record.
C37_ProgressMonotone ==
    \A r \in StartRequests :
        \E recs \in {RecordsOf(r)} :
            /\ \A i \in DOMAIN recs : recs[i].done <= recs[i].total
            /\ \A i \in DOMAIN recs : i > 1 => recs[i - 1].done <= recs[i].done
            /\ \E first \in {FirstRunning(recs)} :
                \A i \in DOMAIN recs :
                    (first > 0 /\ i >= first) => recs[i].total = Len(worker[r].terms)

\* the rejection geocode_with_cache stores for a lookup without any result
NoResults == Outcome(FALSE, "no_results", NoData)

\* the turn of run r that is taken adds a reject row with reason no_results
\* for its term
RejectsNoResults(r) ==
    /\ worker'[r].results = Append(worker[r].results, FALSE)
    /\ worker'[r].rejects =
        Append(worker[r].rejects,
               [luogo |-> worker[r].terms[worker[r].i + 1].raw, reason |-> "no_results"])

StoredPairs(rows) == {<<_norm(r.name_norm), r.page>> : r \in Range(rows)}

\* what load_user_exclusions_full returns after the save lookup tells of is
\* what was given to the save, for the lists with every page in pages
RoundTrip(pages) ==
    \E got \in {load_user_exclusions_full(exclusions_file)} :
        /\ got.global_excl = {_norm(x) : x \in Range(lookup.names)}
        /\ (lookup.excl.given /\ \A r \in Range(lookup.excl.rows) : r.page \in pages)
                => got.page_pairs_excl = StoredPairs(lookup.excl.rows)
        /\ (lookup.incl.given /\ \A r \in Range(lookup.incl.rows) : r.page \in pages)
                => got.forced_include_pairs = StoredPairs(lookup.incl.rows)

\* an attestation list left as None keeps the stored list
NoneKeepsStored ==
    /\ ~lookup.excl.given =>
            exclusions_file.data.excluded_attestations = lookup.before.excluded_attestations
    /\ ~lookup.incl.given =>
            exclusions_file.data.forced_include_attestations =
                lookup.before.forced_include_attestations

\* The round trip holds for the records of every page but 0, and None keeps
\* the stored list
RoundTripOfPages == lookup.pc = "saved" => (RoundTrip(StorePages \ {0}) /\ NoneKeepsStored)

\* C39: after save_user_exclusions(out_dir, T, E, I) with lists of
\* well-formed records, load_user_exclusions_full(out_dir) returns exactly
\* the set of normalized names of T, the set of (normalized name, page) of E
\* and the set of (normalized name, page) of I, for every integer page
\* number; and an attestation list left as None keeps the stored list
\* unchanged.
C39_StoreRoundTrip == lookup.pc = "saved" => (RoundTrip(StorePages) /\ NoneKeepsStored)

\* the ranges parse_include_ranges returned
Parsed == lookup.includes.rows

\* The ranges returned have a <= b, are in ascending order, and the next
\* starts at least two pages after the previous one ends
RangesAscendingApart ==
    lookup.pc = "parsed" =>
        /\ \A i \in DOMAIN Parsed : Parsed[i][1] <= Parsed[i][2]
        /\ \A i \in DOMAIN Parsed : i > 1 => Parsed[i][1] >= Parsed[i - 1][2] + 2

\* C40: for every range string and every total_pages >= 1, each 0-based
\* inclusive range (a, b) returned by parse_include_ranges satisfies
\* 0 <= a <= b <= total_pages - 1, the ranges are in ascending order, and
\* the next range starts at least two pages after the previous one ends.
C40_RangesWithinDocument ==
    lookup.pc = "parsed" =>
        /\ \A i \in DOMAIN Parsed :
            /\ 0 <= Parsed[i][1]
            /\ Parsed[i][1] <= Parsed[i][2]
            /\ Parsed[i][2] <= lookup.total_pages - 1
        /\ \A i \in DOMAIN Parsed : i > 1 => Parsed[i][1] >= Parsed[i - 1][2] + 2

===========================================================================
